---- MODULE Spec2Model ----
(***************************************************************************)
(* Model of the expi physical memory allocator: range::Range and           *)
(* range::RangeSet (src/range/src/lib.rs), mutex::TicketMutex              *)
(* (src/mutex/src/lib.rs) and expi::mm::GlobalAllocator                    *)
(* (src/expi/src/mm.rs) operating on GLOBALS.free_memory                   *)
(* (src/expi/src/globals.rs).                                              *)
(*                                                                         *)
(* Widths are scaled: u64 is U64_BITS wide, usize (the ticket counters) is *)
(* USIZE_BITS wide and the RangeSet array has RANGE_SET_SIZE slots.        *)
(***************************************************************************)
EXTENDS Integers, Sequences, FiniteSets, Bags, TLC

VARIABLES
    rangeset,   \* a RangeSet driven by insert and remove calls
    last        \* the last call on rangeset: its arguments, the set before
                \* it and its result

rangeVars == <<rangeset, last>>

VARIABLES
    next_ticket,    \* TicketMutex::next_ticket
    now_serving,    \* TicketMutex::now_serving
    my_ticket,      \* per core: the local my_ticket of its lock() call
    pc,             \* per core: where the core is in the call it is running
    order,          \* the cores whose fetch_add on next_ticket took effect
                    \* and that are not past the spin loop yet, oldest first
    grant           \* the last core that left the spin loop, and the core
                    \* that was first in `order` at that moment

mutexVars == <<next_ticket, now_serving, my_ticket, pc, order, grant>>

VARIABLES
    free_memory,    \* the Option<RangeSet> protected by GLOBALS.free_memory
    boot,           \* what the boot hands to mm::init: dtb_ptr32 and the
                    \* devicetree found there
    call,           \* per core: the locals of the allocator call it runs
    blocks          \* per core: the bag of blocks alloc returned to it that
                    \* it has not passed to dealloc, with their layouts

allocVars == <<free_memory, boot, call, blocks>>

VARIABLES
    done            \* the last allocator call that ran from its first
                    \* statement to its return with no other call in between:
                    \* its arguments, what it found and what it returned

VARIABLES
    uart_writer,    \* GLOBALS.uart_writer: the two counters of its
                    \* TicketMutex and whether the Option it protects is Some
    cpu             \* per core: where the core is between kernel code,
                    \* print!, the GlobalAlloc hook and the panic handler

panicVars == <<uart_writer, cpu>>

vars ==
    <<rangeset, last, next_ticket, now_serving, my_ticket, pc, order, grant,
      free_memory, boot, call, blocks, done, uart_writer, cpu>>

\* ------------------------------------------------------------------------
\* Bounds
\* ------------------------------------------------------------------------

\* Width of u64 in the model.
U64_BITS == 26

\* Width of usize (AtomicUsize ticket counters) in the model.
USIZE_BITS == 2

\* Number of slots of the array that backs a RangeSet (256 in the source).
RANGE_SET_SIZE == 3

\* Number of cores that use a TicketMutex (up to 4 on the board).
NCORES == 3

\* Number of cores that call the allocator.
NALLOC == 2

\* Number of blocks a core holds at most before it deallocates one.
MaxBlocks == 2

\* Range end points given to RangeSet::insert / RangeSet::remove are drawn
\* from 0..LowPts and from (U64_MAX - HighPts)..U64_MAX.
LowPts == 3

HighPts == 1

\* How far below u64::MAX the end points of SpecTop reach.
TopSpan == 3

\* Size of the stack of each core under entrypoint_mp (32 MiB in the
\* source, for a board with 1 GiB or more of memory; the boots here have a
\* few hundred bytes above the kernel).
CORE_STACK_SIZE == 32

\* Number of cores that entrypoint_mp boots.
MP_CORES == 4

U64_MAX == 2^U64_BITS - 1

USIZE_MOD == 2^USIZE_BITS

\* ------------------------------------------------------------------------
\* range::Range
\* ------------------------------------------------------------------------

Range(start, end) == [start |-> start, end |-> end]

\* Range::default()
Range_default == Range(0, 0)

\* Range::new that rejects a range of one point.
Range_new_strict(start, end) ==
    IF start < end
    THEN [res |-> "Ok", range |-> Range(start, end)]
    ELSE [res |-> "InvalidBoundaries", range |-> Range(start, end)]

\* Result<Range, Error> of Range::new.
Range_new(start, end) ==
    IF start <= end
    THEN [res |-> "Ok", range |-> Range(start, end)]
    ELSE [res |-> "InvalidBoundaries", range |-> Range(start, end)]

contains_point(self, point) == point >= self.start /\ point <= self.end

\* contains_range that tests only the start of `range`.
contains_range_start_only(self, range) ==
    contains_point(self, range.start)

contains_range(self, range) ==
    contains_point(self, range.start) /\ contains_point(self, range.end)

\* A plausible slip: only the end points of `range` are tested.
overlaps_one_sided(self, range) ==
    \/ contains_point(self, range.start)
    \/ contains_point(self, range.end)

\* overlaps that also holds for a range that starts right after `self`.
overlaps_adjacent(self, range) ==
    \/ contains_point(self, range.start)
    \/ contains_point(self, range.end)
    \/ contains_point(range, self.start)
    \/ contains_point(range, self.end)
    \/ range.start = self.end + 1

overlaps(self, range) ==
    \/ contains_point(self, range.start)
    \/ contains_point(self, range.end)
    \/ contains_point(range, self.start)
    \/ contains_point(range, self.end)

\* Range::size, the value of `self.end - self.start + 1` when it is a u64.
Range_size(self) == self.end - self.start + 1

\* Range::size as a build computes it: when `self.end - self.start + 1` is
\* no u64, a build with overflow checks panics and a build without them
\* returns the sum modulo 2^64.
Range_size_u64(self) ==
    IF self.end - self.start + 1 > U64_MAX
    THEN {[res |-> "Overflow", val |-> 0],
          [res |-> "Ok", val |-> (self.end - self.start + 1) % (U64_MAX + 1)]}
    ELSE {[res |-> "Ok", val |-> Range_size(self)]}

\* u64::wrapping_add in the place of saturating_add.
saturating_add_wrapping(x, y) == (x + y) % (U64_MAX + 1)

\* u64::saturating_add
saturating_add(x, y) == IF x + y > U64_MAX THEN U64_MAX ELSE x + y

\* ------------------------------------------------------------------------
\* range::RangeSet
\* ------------------------------------------------------------------------

\* A RangeSet value: the fixed array `ranges` (indexed from 0) and `in_use`.
\* No method reads a slot at index in_use or above (every loop and every
\* copy_within source stops at in_use), so those slots are kept at
\* Range::default() instead of the stale entries copy_within leaves there.
RangeSet(rs, n) ==
    [ranges |-> [k \in DOMAIN rs |-> IF k < n THEN rs[k] ELSE Range_default],
     in_use |-> n]

RangeSet_new ==
    RangeSet([k \in 0..(RANGE_SET_SIZE - 1) |-> Range_default], 0)

\* RangeSet::ranges(): the slice &self.ranges[..self.in_use], as a sequence.
ranges(self) == [k \in 1..self.in_use |-> self.ranges[k - 1]]

\* <[Range]>::copy_within(src_start..src_end, dest) (memmove semantics).
copy_within(arr, src_start, src_end, dest) ==
    [k \in DOMAIN arr |->
        IF k >= dest /\ k < dest + (src_end - src_start)
        THEN arr[src_start + (k - dest)]
        ELSE arr[k]]

\* Result<(), Error> of a RangeSet method together with the set it leaves
\* behind (the methods take &mut self).
Ret(res, self) == [res |-> res, set |-> self]

\* The index found by the first loop of sort_insert: the first i in
\* 0..in_use with range.start <= ranges[i].start, else in_use.
RECURSIVE find_idx(_, _, _)
find_idx(self, range, i) ==
    IF i >= self.in_use THEN self.in_use
    ELSE IF range.start = self.ranges[i].start THEN i
    ELSE IF range.start < self.ranges[i].start THEN i
    ELSE find_idx(self, range, i + 1)

max(a, b) == IF a >= b THEN a ELSE b

\* A plausible slip: the new range is stored before the capacity check.
sort_insert_store_first(self, range) ==
    LET idx == find_idx(self, range, 0) IN
    IF idx < self.in_use /\ range.start = self.ranges[idx].start
    THEN Ret("Ok", RangeSet(
            [self.ranges EXCEPT ![idx].end = max(range.end, self.ranges[idx].end)],
            self.in_use))
    ELSE IF self.in_use >= RANGE_SET_SIZE
    THEN Ret("FullRangeSet",
             IF idx < RANGE_SET_SIZE
             THEN RangeSet([self.ranges EXCEPT ![idx] = range], self.in_use)
             ELSE self)
    ELSE Ret("Ok", RangeSet(
            [copy_within(self.ranges, idx, self.in_use, idx + 1)
                EXCEPT ![idx] = range],
            self.in_use + 1))

\* sort_insert that tests the capacity before it looks for an entry with
\* the same start.
sort_insert_capacity_first(self, range) ==
    LET idx == find_idx(self, range, 0) IN
    IF self.in_use >= RANGE_SET_SIZE
    THEN Ret("FullRangeSet", self)
    ELSE IF idx < self.in_use /\ range.start = self.ranges[idx].start
    THEN Ret("Ok", RangeSet(
            [self.ranges EXCEPT ![idx].end = max(range.end, self.ranges[idx].end)],
            self.in_use))
    ELSE Ret("Ok", RangeSet(
            [copy_within(self.ranges, idx, self.in_use, idx + 1)
                EXCEPT ![idx] = range],
            self.in_use + 1))

sort_insert(self, range) ==
    LET idx == find_idx(self, range, 0) IN
    IF idx < self.in_use /\ range.start = self.ranges[idx].start
    THEN Ret("Ok", RangeSet(
            [self.ranges EXCEPT ![idx].end = max(range.end, self.ranges[idx].end)],
            self.in_use))
    ELSE IF self.in_use >= RANGE_SET_SIZE
    THEN Ret("FullRangeSet", self)
    ELSE Ret("Ok", RangeSet(
            [copy_within(self.ranges, idx, self.in_use, idx + 1)
                EXCEPT ![idx] = range],
            self.in_use + 1))

\* A plausible slip: contiguous ranges (a.end + 1 == b.start) are not merged.
not_mergeable_no_contiguous(a, b) == b.start > a.end

\* The test of merge that skips a pair: the ranges are neither contiguous
\* nor overlapped.
not_mergeable(a, b) == b.start > saturating_add(a.end, 1)

\* A plausible slip: the end point of the second range is always taken.
merged_end_unconditional(a, b) == b.end

\* The end point of the first range after merging the second one into it.
merged_end(a, b) ==
    IF contains_point(b, saturating_add(a.end, 1)) THEN b.end ELSE a.end

RECURSIVE merge_loop(_, _)
merge_loop(self, i) ==
    IF ~(i < self.in_use - 1) THEN self
    ELSE IF not_mergeable(self.ranges[i], self.ranges[i + 1])
    THEN merge_loop(self, i + 1)
    ELSE LET ext == [self.ranges EXCEPT
                        ![i].end = merged_end(self.ranges[i], self.ranges[i + 1])]
         IN merge_loop(
                RangeSet(copy_within(ext, i + 2, self.in_use, i + 1),
                         self.in_use - 1),
                i)

merge(self) == merge_loop(self, 0)

insert(self, range) ==
    LET r == sort_insert(self, range) IN
    IF r.res # "Ok" THEN r ELSE Ret("Ok", merge(r.set))

\* True when a u64 operation yields a value that is not a u64 (a panic with
\* overflow checks, a wrapped value without): the methods below report it
\* as the result "Overflow" and stop.
u64_overflows(x) == x < 0 \/ x > U64_MAX

\* A plausible slip: the existing range is shrunk before the capacity check.
split_shrink_first(self, range, i) ==
    IF self.in_use >= RANGE_SET_SIZE
    THEN Ret("FullRangeSet",
             RangeSet([self.ranges EXCEPT ![i].end = range.start - 1],
                      self.in_use))
    ELSE LET new_range == Range_new(self.ranges[i].start, range.start - 1)
             moved == copy_within(self.ranges, i, self.in_use, i + 1)
         IN Ret("Ok", RangeSet(
                [moved EXCEPT ![i] = new_range.range,
                              ![i + 1].start = range.end + 1],
                self.in_use + 1))

\* The split with a capacity test that is off by one: it fails while one
\* slot is still free.
split_one_short(self, range, i) ==
    IF self.in_use + 1 >= RANGE_SET_SIZE
    THEN Ret("FullRangeSet", self)
    ELSE LET new_range == Range_new(self.ranges[i].start, range.start - 1)
             moved == copy_within(self.ranges, i, self.in_use, i + 1)
         IN Ret("Ok", RangeSet(
                [moved EXCEPT ![i] = new_range.range,
                              ![i + 1].start = range.end + 1],
                self.in_use + 1))

\* The last branch of the contains_range case of remove: the range to be
\* removed is in the middle of ranges[i], which is split.
split(self, range, i) ==
    IF self.in_use >= RANGE_SET_SIZE
    THEN Ret("FullRangeSet", self)
    ELSE IF u64_overflows(range.start - 1) \/ u64_overflows(range.end + 1)
    THEN Ret("Overflow", self)
    ELSE LET new_range == Range_new(self.ranges[i].start, range.start - 1) IN
         IF new_range.res # "Ok"
         THEN Ret(new_range.res, self)
         ELSE LET moved == copy_within(self.ranges, i, self.in_use, i + 1) IN
              Ret("Ok", RangeSet(
                  [moved EXCEPT ![i] = new_range.range,
                                ![i + 1].start = range.end + 1],
                  self.in_use + 1))

\* The loop of remove, from index i on.
RECURSIVE remove_loop(_, _, _)
remove_loop(self, range, i) ==
    IF ~(i < self.in_use) THEN Ret("Ok", self)
    ELSE IF self.ranges[i].start > range.end THEN Ret("Ok", self)
    ELSE IF ~overlaps(self.ranges[i], range)
    THEN remove_loop(self, range, i + 1)
    ELSE IF contains_range(self.ranges[i], range)
    THEN IF self.ranges[i] = range
         THEN Ret("Ok", RangeSet(
                  copy_within(self.ranges, i + 1, self.in_use, i),
                  self.in_use - 1))
         ELSE IF self.ranges[i].start = range.start
         THEN IF u64_overflows(range.end + 1)
              THEN Ret("Overflow", self)
              ELSE Ret("Ok", RangeSet(
                       [self.ranges EXCEPT ![i].start = range.end + 1],
                       self.in_use))
         ELSE IF self.ranges[i].end = range.end
         THEN IF u64_overflows(range.start - 1)
              THEN Ret("Overflow", self)
              ELSE Ret("Ok", RangeSet(
                       [self.ranges EXCEPT ![i].end = range.start - 1],
                       self.in_use))
         ELSE split(self, range, i)
    ELSE IF contains_range(range, self.ranges[i])
    THEN remove_loop(
             RangeSet(copy_within(self.ranges, i + 1, self.in_use, i),
                      self.in_use - 1),
             range, i)
    ELSE IF contains_point(self.ranges[i], range.start)
    THEN IF u64_overflows(range.start - 1)
         THEN Ret("Overflow", self)
         ELSE remove_loop(
                  RangeSet([self.ranges EXCEPT ![i].end = range.start - 1],
                           self.in_use),
                  range, i + 1)
    ELSE IF u64_overflows(range.end + 1)
         THEN Ret("Overflow", self)
         ELSE remove_loop(
                  RangeSet([self.ranges EXCEPT ![i].start = range.end + 1],
                           self.in_use),
                  range, i + 1)

remove(self, range) == remove_loop(self, range, 0)

\* RangeSet::size(): the sum of the sizes of the first n entries.
RECURSIVE sum_sizes(_, _)
sum_sizes(self, n) ==
    IF n = 0 THEN 0
    ELSE Range_size(self.ranges[n - 1]) + sum_sizes(self, n - 1)

RangeSet_size(self) == sum_sizes(self, self.in_use)

\* RangeSet::size as a build computes it: when the size of an entry or the
\* sum is no u64, a build with overflow checks panics and a build without
\* them returns the sum modulo 2^64.
RangeSet_size_u64(self) ==
    IF \/ \E k \in 0..(self.in_use - 1) : Range_size(self.ranges[k]) > U64_MAX
       \/ RangeSet_size(self) > U64_MAX
    THEN {[res |-> "Overflow", val |-> 0],
          [res |-> "Ok", val |-> RangeSet_size(self) % (U64_MAX + 1)]}
    ELSE {[res |-> "Ok", val |-> RangeSet_size(self)]}

\* RangeSet::start: ranges().first().map(|r| r.start()).
RangeSet_start(self) ==
    IF self.in_use = 0 THEN [some |-> FALSE, val |-> 0]
    ELSE [some |-> TRUE, val |-> ranges(self)[1].start]

\* RangeSet::end: ranges().last().map(|r| r.end()).
RangeSet_end(self) ==
    IF self.in_use = 0 THEN [some |-> FALSE, val |-> 0]
    ELSE [some |-> TRUE, val |-> ranges(self)[self.in_use].end]


\* ------------------------------------------------------------------------
\* mutex::TicketMutex
\* ------------------------------------------------------------------------

Cores == 1..NCORES

\* A counter one bit narrower than usize: it wraps after half the tickets.
fetch_add_one_bit_short(x) == (x + 1) % (USIZE_MOD \div 2)

\* The value AtomicUsize::fetch_add(1, SeqCst) stores: usize addition wraps.
fetch_add(x) == (x + 1) % USIZE_MOD

\* TicketMutex::lock, first statement:
\* my_ticket = self.next_ticket.fetch_add(1, SeqCst).
take_ticket(c) ==
    /\ my_ticket' = [my_ticket EXCEPT ![c] = next_ticket]
    /\ next_ticket' = fetch_add(next_ticket)

\* A plausible slip: the loop spins only while the ticket is ahead of
\* now_serving.
spin_done_not_ahead(c) == my_ticket[c] <= now_serving

\* TicketMutex::lock, exit test of the spin loop:
\* my_ticket == self.now_serving.load(SeqCst).
spin_done(c) == my_ticket[c] = now_serving

\* A plausible slip: the release skips a ticket.
guard_drop_by_two == now_serving' = fetch_add(fetch_add(now_serving))

\* A plausible slip: dropping the guard does not release the lock.
guard_drop_forgotten == now_serving' = now_serving

\* TicketMutexGuard::drop: self.mutex.now_serving.fetch_add(1, SeqCst).
guard_drop == now_serving' = fetch_add(now_serving)

\* `order` without core c.
Without(seq, c) == SelectSeq(seq, LAMBDA x : x # c)

\* Bookkeeping of the order of service: c took a ticket.
issued(c) == order' = Append(order, c)

\* Bookkeeping of the order of service: c left the spin loop.
granted(c) ==
    /\ grant' = [core |-> c, first |-> Head(order)]
    /\ order' = Without(order, c)

\* lock() returns: its local my_ticket is gone.
lock_returns(c) == my_ticket' = [my_ticket EXCEPT ![c] = 0]


\* ------------------------------------------------------------------------
\* expi::mm
\* ------------------------------------------------------------------------

\* Base address of the kernel.
KERNEL_BASE == 524288

\* Maximum kernel size.
KERNEL_MAX_SIZE == 16 * 1024 * 1024

\* core::alloc::Layout
Layout(size, align) == [size |-> size, align |-> align]

\* u64::count_ones / usize::count_ones
RECURSIVE count_ones(_)
count_ones(x) == IF x = 0 THEN 0 ELSE (x % 2) + count_ones(x \div 2)

\* Bitwise AND of two unsigned values.
RECURSIVE bit_and(_, _)
bit_and(a, b) ==
    IF a = 0 \/ b = 0 THEN 0
    ELSE (a % 2) * (b % 2) + 2 * bit_and(a \div 2, b \div 2)

\* Bitwise NOT of a u64.
u64_not(x) == U64_MAX - x

\* Layout::pad_to_align: the size rounded up to a multiple of align.
pad_to_align(layout) ==
    Layout(bit_and(layout.size + layout.align - 1,
                   u64_not(layout.align - 1)),
           layout.align)

\* A plausible slip: the first size class is used for every small request.
alloc_size_one_class(layout) ==
    LET size == pad_to_align(layout).size IN
    IF size <= 512 THEN 32 ELSE size

alloc_size(layout) ==
    LET size == pad_to_align(layout).size IN
    IF size <= 32 THEN 32
    ELSE IF size <= 64 THEN 64
    ELSE IF size <= 128 THEN 128
    ELSE IF size <= 256 THEN 256
    ELSE IF size <= 512 THEN 512
    ELSE size

\* Option<RangeSet>
None == [some |-> FALSE, set |-> RangeSet_new]

Some(set) == [some |-> TRUE, set |-> set]

\* The locals of an allocator call: the function, its arguments, the range
\* it works on and its result so far ("Run" while it has none).
CallRec(fn, layout, reserved, res) ==
    [fn |-> fn, layout |-> layout, reserved |-> reserved, res |-> res]

NoCall == CallRec("none", Layout(0, 1), Range_default, "Run")

\* A block held by a caller: the pointer alloc returned and the layout that
\* was requested.
Block(ptr, layout) == [ptr |-> ptr, layout |-> layout]

\* A plausible slip: the end of the block is start + size, one byte too far.
RECURSIVE find_region_one_more(_, _, _, _)
find_region_one_more(free_mem, size, align, k) ==
    IF k >= free_mem.in_use
    THEN [res |-> "NotSatisfiable", reserved |-> Range_default]
    ELSE LET region == free_mem.ranges[k] IN
         IF u64_overflows(region.start + (align - 1))
         THEN [res |-> "IntegerOverflow", reserved |-> Range_default]
         ELSE LET start == bit_and(region.start + (align - 1),
                                   u64_not(align - 1)) IN
              IF u64_overflows(start + size)
              THEN [res |-> "IntegerOverflow", reserved |-> Range_default]
              ELSE IF start + size <= region.end
              THEN LET r == Range_new(start, start + size) IN
                   [res |-> r.res, reserved |-> r.range]
              ELSE find_region_one_more(free_mem, size, align, k + 1)

\* A plausible slip: the start of the region is not aligned.
RECURSIVE find_region_unaligned(_, _, _, _)
find_region_unaligned(free_mem, size, align, k) ==
    IF k >= free_mem.in_use
    THEN [res |-> "NotSatisfiable", reserved |-> Range_default]
    ELSE LET region == free_mem.ranges[k] IN
         LET start == region.start IN
         IF u64_overflows(start + (size - 1))
         THEN [res |-> "IntegerOverflow", reserved |-> Range_default]
         ELSE IF start + (size - 1) <= region.end
         THEN LET r == Range_new(start, start + (size - 1)) IN
              [res |-> r.res, reserved |-> r.range]
         ELSE find_region_unaligned(free_mem, size, align, k + 1)

\* A plausible slip: the loop has no break, so the last region that holds
\* the block is taken.
RECURSIVE find_region_no_break(_, _, _, _)
find_region_no_break(free_mem, size, align, k) ==
    IF k >= free_mem.in_use
    THEN [res |-> "NotSatisfiable", reserved |-> Range_default]
    ELSE LET region == free_mem.ranges[k] IN
         IF u64_overflows(region.start + (align - 1))
         THEN [res |-> "IntegerOverflow", reserved |-> Range_default]
         ELSE LET start == bit_and(region.start + (align - 1),
                                   u64_not(align - 1)) IN
              IF u64_overflows(start + (size - 1))
              THEN [res |-> "IntegerOverflow", reserved |-> Range_default]
              ELSE LET later == find_region_no_break(free_mem, size, align,
                                                     k + 1) IN
                   IF start + (size - 1) <= region.end
                        /\ later.res = "NotSatisfiable"
                   THEN LET r == Range_new(start, start + (size - 1)) IN
                        [res |-> r.res, reserved |-> r.range]
                   ELSE later

\* The loop of try_alloc over free_mem.ranges(), from entry k on: the first
\* region that holds an aligned block of `size` bytes.
RECURSIVE find_region(_, _, _, _)
find_region(free_mem, size, align, k) ==
    IF k >= free_mem.in_use
    THEN [res |-> "NotSatisfiable", reserved |-> Range_default]
    ELSE LET region == free_mem.ranges[k] IN
         IF u64_overflows(region.start + (align - 1))
         THEN [res |-> "IntegerOverflow", reserved |-> Range_default]
         ELSE LET start == bit_and(region.start + (align - 1),
                                   u64_not(align - 1)) IN
              IF u64_overflows(start + (size - 1))
              THEN [res |-> "IntegerOverflow", reserved |-> Range_default]
              ELSE IF start + (size - 1) <= region.end
              THEN LET r == Range_new(start, start + (size - 1)) IN
                   [res |-> r.res, reserved |-> r.range]
              ELSE find_region(free_mem, size, align, k + 1)

\* fdt::Header::parse, its first test: the blob is 8-byte-aligned.
Header_parse(ptr) == IF ptr % 8 # 0 THEN "FdtError" ELSE "Ok"

\* What mm::init reads: dtb_ptr32, the result of EarlyFdt::parse, the
\* header's totalsize, the (address, size) entries of the reg properties of
\* the memory nodes, whether a memory node exists, and the memory
\* reservation block.
Boot(dtb_ptr32, totalsize, memory, rsv) ==
    [dtb_ptr32 |-> dtb_ptr32, fdt |-> Header_parse(dtb_ptr32),
     totalsize |-> totalsize, memory |-> memory,
     memory_found |-> memory # <<>>, rsv |-> rsv]

\* mm::init, the loop over the memory regions, from entry k on.
RECURSIVE insert_regions(_, _, _)
insert_regions(free_mem, memory, k) ==
    IF k > Len(memory) THEN Ret("Ok", free_mem)
    ELSE IF u64_overflows(memory[k][1] + memory[k][2] - 1)
    THEN Ret("Overflow", free_mem)
    ELSE LET mem_region ==
                 Range_new(memory[k][1], memory[k][1] + memory[k][2] - 1) IN
         IF mem_region.res # "Ok" THEN Ret(mem_region.res, free_mem)
         ELSE LET r == insert(free_mem, mem_region.range) IN
              IF r.res # "Ok" THEN r
              ELSE insert_regions(r.set, memory, k + 1)

\* Range::new(addr, addr + size - 1)? followed by free_mem.remove(..)?.
remove_region(free_mem, addr, size) ==
    IF u64_overflows(addr + size - 1) THEN Ret("Overflow", free_mem)
    ELSE LET rsv == Range_new(addr, addr + size - 1) IN
         IF rsv.res # "Ok" THEN Ret(rsv.res, free_mem)
         ELSE remove(free_mem, rsv.range)

\* mm::init, the loop over the memory reservation block, from entry k on.
RECURSIVE remove_regions(_, _, _)
remove_regions(free_mem, rsv, k) ==
    IF k > Len(rsv) THEN Ret("Ok", free_mem)
    ELSE LET r == remove_region(free_mem, rsv[k][1], rsv[k][2]) IN
         IF r.res # "Ok" THEN r
         ELSE remove_regions(r.set, rsv, k + 1)

\* mm::init that leaves the devicetree blob in the free set.
build_free_mem_keep_dtb(b) ==
    IF b.fdt # "Ok" THEN Ret(b.fdt, RangeSet_new)
    ELSE LET mem == insert_regions(RangeSet_new, b.memory, 1) IN
    IF mem.res # "Ok" THEN mem
    ELSE IF ~b.memory_found THEN Ret("MissingMemoryNode", mem.set)
    ELSE LET rsv == remove_regions(mem.set, b.rsv, 1) IN
         IF rsv.res # "Ok" THEN rsv
         ELSE remove_region(rsv.set, 0, KERNEL_BASE + KERNEL_MAX_SIZE)

\* mm::init that does not reserve the kernel region [0, KernelEnd - 1].
build_free_mem_keep_kernel(b) ==
    IF b.fdt # "Ok" THEN Ret(b.fdt, RangeSet_new)
    ELSE LET mem == insert_regions(RangeSet_new, b.memory, 1) IN
    IF mem.res # "Ok" THEN mem
    ELSE IF ~b.memory_found THEN Ret("MissingMemoryNode", mem.set)
    ELSE LET dtb == remove_region(mem.set, b.dtb_ptr32, b.totalsize) IN
         IF dtb.res # "Ok" THEN dtb
         ELSE remove_regions(dtb.set, b.rsv, 1)

\* mm::init from `let mut free_mem = RangeSet::new()` up to the kernel
\* region: the set it builds, or the first error.
build_free_mem(b) ==
    IF b.fdt # "Ok" THEN Ret(b.fdt, RangeSet_new)
    ELSE LET mem == insert_regions(RangeSet_new, b.memory, 1) IN
    IF mem.res # "Ok" THEN mem
    ELSE IF ~b.memory_found THEN Ret("MissingMemoryNode", mem.set)
    ELSE LET dtb == remove_region(mem.set, b.dtb_ptr32, b.totalsize) IN
         IF dtb.res # "Ok" THEN dtb
         ELSE LET rsv == remove_regions(dtb.set, b.rsv, 1) IN
              IF rsv.res # "Ok" THEN rsv
              ELSE remove_region(rsv.set, 0, KERNEL_BASE + KERNEL_MAX_SIZE)

\* First address above the region reserved for the kernel.
KernelEnd == KERNEL_BASE + KERNEL_MAX_SIZE

\* The boots of the model: 224 bytes of memory above the kernel with the
\* devicetree blob inside them; 160 bytes with the blob below the kernel
\* and one reserved region.
BootConfigs ==
    << Boot(KernelEnd + 64, 32, << <<0, KernelEnd + 224>> >>, <<>>),
       Boot(4096, 32, << <<0, KernelEnd + 160>> >>,
            << <<KernelEnd + 32, 32>> >>) >>

\* The layouts the callers request.
Layouts == {Layout(0, 1), Layout(8, 3), Layout(8, 8), Layout(40, 64)}

\* What a call of try_alloc, try_dealloc, init or free_memory_size does:
\* whether it went through GLOBALS.free_memory().lock(), its Result (the
\* error, or "Ok" with the pointer or size `val`), the range it computed and
\* the Option<RangeSet> it leaves behind the mutex.
Outcome(locked, res, val, reserved, mem) ==
    [locked |-> locked, res |-> res, val |-> val, reserved |-> reserved,
     mem |-> mem]

\* A plausible slip: the alignment is validated before the size.
alloc_args_align_first(layout) ==
    IF count_ones(layout.align) # 1 THEN "InvalidAlign"
    ELSE IF layout.size = 0 THEN "Null"
    ELSE "Lock"

\* try_alloc, the tests made before the lock is taken: "Null" for
\* Ok(null_mut()), the error, or "Lock" when the call goes on.
alloc_args(layout) ==
    IF layout.size = 0 THEN "Null"
    ELSE IF count_ones(layout.align) # 1 THEN "InvalidAlign"
    ELSE "Lock"

\* A plausible slip: the block is removed without the Uninitialized test
\* standing in the way of the search (an empty set is searched instead).
try_alloc_no_uninit(mem, layout) ==
    LET args == alloc_args(layout) IN
    IF args = "Null" THEN Outcome(FALSE, "Ok", 0, Range_default, mem)
    ELSE IF args # "Lock" THEN Outcome(FALSE, args, 0, Range_default, mem)
    ELSE LET found == find_region(mem.set, alloc_size(layout),
                                  layout.align, 0) IN
         IF found.res # "Ok"
         THEN Outcome(TRUE, found.res, 0, Range_default, mem)
         ELSE LET r == remove(mem.set, found.reserved) IN
              Outcome(TRUE, r.res,
                      IF r.res = "Ok" THEN found.reserved.start ELSE 0,
                      found.reserved, Some(r.set))

\* GlobalAllocator::try_alloc
try_alloc(mem, layout) ==
    LET args == alloc_args(layout) IN
    IF args = "Null" THEN Outcome(FALSE, "Ok", 0, Range_default, mem)
    ELSE IF args # "Lock" THEN Outcome(FALSE, args, 0, Range_default, mem)
    ELSE IF ~mem.some
    THEN Outcome(TRUE, "Uninitialized", 0, Range_default, mem)
    ELSE LET found == find_region(mem.set, alloc_size(layout),
                                  layout.align, 0) IN
         IF found.res # "Ok"
         THEN Outcome(TRUE, found.res, 0, Range_default, mem)
         ELSE LET r == remove(mem.set, found.reserved) IN
              Outcome(TRUE, r.res,
                      IF r.res = "Ok" THEN found.reserved.start ELSE 0,
                      found.reserved, Some(r.set))

\* A plausible slip: the size is tested before the pointer.
dealloc_args_size_first(ptr, layout) ==
    IF layout.size = 0 THEN "ZeroSize"
    ELSE IF ptr = 0 THEN "NullPtr"
    ELSE IF count_ones(layout.align) # 1 THEN "InvalidAlign"
    ELSE "Lock"

\* try_dealloc, the tests made before the lock is taken: the error, or
\* "Lock" when the call goes on.
dealloc_args(ptr, layout) ==
    IF ptr = 0 THEN "NullPtr"
    ELSE IF layout.size = 0 THEN "ZeroSize"
    ELSE IF count_ones(layout.align) # 1 THEN "InvalidAlign"
    ELSE "Lock"

\* A plausible slip: the end of the block is computed with a wrapping
\* addition.
dealloc_range_wrapping(start, size) ==
    Range_new(start, (start + (size - 1)) % (U64_MAX + 1))

\* try_dealloc: start.checked_add(size - 1).ok_or(IntegerOverflow)? and
\* Range::new(start, end)?.
dealloc_range(start, size) ==
    IF u64_overflows(start + (size - 1))
    THEN [res |-> "IntegerOverflow", range |-> Range_default]
    ELSE Range_new(start, start + (size - 1))

\* GlobalAllocator::try_dealloc
try_dealloc(mem, ptr, layout) ==
    LET args == dealloc_args(ptr, layout) IN
    IF args # "Lock" THEN Outcome(FALSE, args, 0, Range_default, mem)
    ELSE IF ~mem.some
    THEN Outcome(TRUE, "Uninitialized", 0, Range_default, mem)
    ELSE LET reserved == dealloc_range(ptr, alloc_size(layout)) IN
         IF reserved.res # "Ok"
         THEN Outcome(TRUE, reserved.res, 0, Range_default, mem)
         ELSE LET r == insert(mem.set, reserved.range) IN
              Outcome(TRUE, r.res, 0, reserved.range, Some(r.set))

\* mm::init that stores the set it has built so far when a step fails.
init_publishes_partial(mem, b) ==
    IF mem.some THEN Outcome(TRUE, "Ok", 0, Range_default, mem)
    ELSE LET r == build_free_mem(b) IN
         IF r.res # "Ok" THEN Outcome(TRUE, r.res, 0, Range_default, Some(r.set))
         ELSE Outcome(TRUE, "Ok", 0, Range_default, Some(r.set))

\* mm::init
init(mem, b) ==
    IF mem.some THEN Outcome(TRUE, "Ok", 0, Range_default, mem)
    ELSE LET r == build_free_mem(b) IN
         IF r.res # "Ok" THEN Outcome(TRUE, r.res, 0, Range_default, mem)
         ELSE Outcome(TRUE, "Ok", 0, Range_default, Some(r.set))

\* mm::free_memory_size
free_memory_size(mem) ==
    IF ~mem.some THEN Outcome(TRUE, "Uninitialized", 0, Range_default, mem)
    ELSE Outcome(TRUE, "Ok", RangeSet_size(mem.set), Range_default, mem)

\* Boots that take the allocator to its limits: memory that ends at the last
\* address, behind a region too small for any block; a free set of three
\* regions; one region of 1 KiB.
EdgeBoots ==
    << Boot(4096, 32, << <<0, KernelEnd + 16>>, <<U64_MAX - 47, 48>> >>, <<>>),
       Boot(KernelEnd + 48, 16, << <<0, KernelEnd + 224>> >>,
            << <<KernelEnd + 96, 16>> >>),
       Boot(4096, 32, << <<0, KernelEnd + 1024>> >>, <<>>) >>

\* Boots on which mm::init fails: a blob that is not 8-byte-aligned; no
\* memory node; a reservation entry of size zero, for which Range::new
\* fails; one memory region more than a RangeSet holds, so that insert
\* fails; as many memory regions as a RangeSet holds with the blob in the
\* middle of one of them, so that remove fails.
FailBoots ==
    << Boot(4100, 32, << <<0, KernelEnd + 224>> >>, <<>>),
       Boot(4096, 32, <<>>, <<>>),
       Boot(4096, 32, << <<0, KernelEnd + 224>> >>, << <<KernelEnd + 96, 0>> >>),
       Boot(4096, 32, [k \in 1..(RANGE_SET_SIZE + 1) |-> <<64 * k, 16>>], <<>>),
       Boot(64 + 8, 4, [k \in 1..RANGE_SET_SIZE |-> <<64 * k, 16>>], <<>>) >>

\* The error of init on each of the FailBoots.
FailKinds ==
    <<"FdtError", "MissingMemoryNode", "InvalidBoundaries", "FullRangeSet",
      "FullRangeSet">>

\* The layouts passed to the calls that run one at a time: a zero size with
\* a good and with a bad alignment, an alignment that is no power of two, a
\* zero alignment, a small block, an alignment above the size class of the
\* size, and a size above the last size class that is no multiple of the
\* alignment.
CallLayouts ==
    {Layout(0, 1), Layout(0, 3), Layout(8, 3), Layout(8, 0), Layout(8, 8),
     Layout(8, 64), Layout(520, 32)}

\* The layouts passed to dealloc with a pointer that no alloc returned.
ForeignLayouts == {Layout(0, 1), Layout(0, 3), Layout(8, 3), Layout(8, 8)}

\* The record of a finished call: the function, its pointer and layout
\* arguments, its outcome, the Option<RangeSet> and the ticket counters it
\* found, and for a dealloc of the block that the call before it allocated,
\* the Option<RangeSet> that alloc had found (None otherwise).
Done(fn, ptr, layout, out, mem, tickets, before_alloc) ==
    [fn |-> fn, ptr |-> ptr, layout |-> layout, out |-> out, old |-> mem,
     tickets |-> tickets, before_alloc |-> before_alloc]

NoDone ==
    Done("none", 0, Layout(0, 1), Outcome(FALSE, "Ok", 0, Range_default, None),
         None, <<0, 0>>, None)

\* Pointers passed to dealloc that no alloc returned: null, and an address
\* too close to the last one for any block to start there.
ForeignPtrs == {0, U64_MAX - 15}

\* GLOBALS.uart_writer: TicketMutex<Option<UartWriter>>.
UartWriter(next, serving, some) ==
    [next_ticket |-> next, now_serving |-> serving, some |-> some]

\* What a core is doing. pc: "run" (kernel code), "lock" (print!, in the
\* spin loop of uart_writer().lock()), "fmt" (print!, with the guard, in
\* write_fmt), "panic" (the panic handler, before its n-th print), "plock"
\* and "pfmt" (that print, as "lock" and "fmt"), "halt" (the wfe loop).
\* ticket: my_ticket of the lock() call while it spins, else 0. guard: the core holds the guard of
\* the print! that the panic interrupted. err: the error of the panic
\* message. written: the UART has sent the message.
Cpu(at, ticket, guard, n, err, written) ==
    [pc |-> at, ticket |-> ticket, guard |-> guard, n |-> n, err |-> err,
     written |-> written]

\* ------------------------------------------------------------------------
\* Specification Spec: a RangeSet under any sequence of insert and remove
\* ------------------------------------------------------------------------

\* End points of the ranges passed to insert and remove: the bottom and the
\* top of the address space.
Pts == (0..LowPts) \cup ((U64_MAX - HighPts)..U64_MAX)

\* The Range values the callers can build (Range::new succeeded).
InputRanges ==
    {Range_new(s, e).range : <<s, e>> \in {pt \in Pts \X Pts : pt[1] <= pt[2]}}

Call(op, range, old, res) ==
    [op |-> op, range |-> range, old |-> old, res |-> res]

\* No call has been made on rangeset.
RangeInit ==
    /\ rangeset = RangeSet_new
    /\ last = Call("new", Range_default, RangeSet_new, "Ok")

\* TicketMutex::new, and no core has called lock().
MutexInit ==
    /\ next_ticket = 0
    /\ now_serving = 0
    /\ my_ticket = [c \in Cores |-> 0]
    /\ pc = [c \in Cores |-> "idle"]
    /\ order = <<>>
    /\ grant = [core |-> 0, first |-> 0]

\* GlobalResources::new: free_memory is None; no allocator call is running.
GlobalsInit ==
    /\ free_memory = None
    /\ call = [c \in Cores |-> NoCall]
    /\ blocks = [c \in Cores |-> EmptyBag]
    /\ done = NoDone
    /\ uart_writer = UartWriter(0, 0, FALSE)
    /\ cpu = [c \in Cores |-> Cpu("run", 0, FALSE, 1, "none", FALSE)]

Init ==
    /\ RangeInit
    /\ MutexInit
    /\ GlobalsInit
    /\ boot = Head(BootConfigs)

Insert(range) ==
    LET r == insert(rangeset, range) IN
    /\ rangeset' = r.set
    /\ last' = Call("insert", range, rangeset, r.res)
    /\ UNCHANGED <<mutexVars, allocVars, done, panicVars>>

Remove(range) ==
    LET r == remove(rangeset, range) IN
    /\ rangeset' = r.set
    /\ last' = Call("remove", range, rangeset, r.res)
    /\ UNCHANGED <<mutexVars, allocVars, done, panicVars>>

Next ==
    \/ \E range \in InputRanges : Insert(range)
    \/ \E range \in InputRanges : Remove(range)

Spec == Init /\ [][Next]_vars

\* An address is covered by some entry of ranges().
Covered(self, p) ==
    \E k \in 0..(self.in_use - 1) : contains_point(self.ranges[k], p)

\* Addresses at which coverage is compared.  Every end point of an entry is
\* an end point of an argument or next to one, so the addresses strictly
\* between LowPts + 1 and U64_MAX - HighPts - 1 are covered exactly when
\* these two are.
Probe == Pts \cup {LowPts + 1, U64_MAX - HighPts - 1}

\* C1: after any sequence of insert and remove calls, ranges() is sorted
\* strictly ascending, its entries neither overlap nor touch
\* (a.end + 1 < b.start), every entry has start <= end, and in_use <= N.
C1_Canonical ==
    /\ rangeset.in_use <= RANGE_SET_SIZE
    /\ \A k \in 0..(rangeset.in_use - 1) :
        rangeset.ranges[k].start <= rangeset.ranges[k].end
    /\ \A k \in 0..(rangeset.in_use - 2) :
        rangeset.ranges[k].end + 1 < rangeset.ranges[k + 1].start

\* A remove split an entry of a set that an insert had merged before.
C1_Witness ==
    /\ last.op = "remove"
    /\ last.res = "Ok"
    /\ rangeset.in_use = last.old.in_use + 1
    /\ rangeset.in_use >= 2

\* C2: a successful insert(r) computes the union: an address is covered
\* afterwards iff it was covered before or lies in r.
C2_InsertIsUnion ==
    (last.op = "insert" /\ last.res = "Ok") =>
        \A p \in Probe :
            Covered(rangeset, p) <=>
                (Covered(last.old, p) \/ contains_point(last.range, p))

\* An insert swallowed at least two entries of the set.
C2_Witness ==
    /\ last.op = "insert"
    /\ last.res = "Ok"
    /\ rangeset.in_use + 1 < last.old.in_use

\* C3: a successful remove(r) computes the difference: an address is
\* covered afterwards iff it was covered before and lies outside r.
C3_RemoveIsDifference ==
    (last.op = "remove" /\ last.res = "Ok") =>
        \A p \in Probe :
            Covered(rangeset, p) <=>
                (Covered(last.old, p) /\ ~contains_point(last.range, p))

\* A remove deleted a whole entry and cut two others at their edges.
C3_Witness ==
    /\ last.op = "remove"
    /\ last.res = "Ok"
    /\ last.old.in_use = 3
    /\ rangeset.in_use = 2
    /\ rangeset.ranges[0].end < last.old.ranges[0].end
    /\ rangeset.ranges[1].start > last.old.ranges[2].start

\* C4: an insert that returns FullRangeSet leaves ranges() and in_use as
\* they were.
C4_InsertFullUnchanged ==
    (last.op = "insert" /\ last.res = "FullRangeSet") =>
        /\ rangeset.in_use = last.old.in_use
        /\ ranges(rangeset) = ranges(last.old)

\* An insert into a set of N entries failed.
C4_Witness ==
    /\ last.op = "insert"
    /\ last.res = "FullRangeSet"
    /\ last.old.in_use = RANGE_SET_SIZE

\* C5: a remove that returns FullRangeSet leaves ranges() and in_use as
\* they were.
C5_RemoveFullUnchanged ==
    (last.op = "remove" /\ last.res = "FullRangeSet") =>
        /\ rangeset.in_use = last.old.in_use
        /\ ranges(rangeset) = ranges(last.old)

\* A remove that had to split an entry of a set of N entries failed.
C5_Witness ==
    /\ last.op = "remove"
    /\ last.res = "FullRangeSet"
    /\ last.old.in_use = RANGE_SET_SIZE

\* ------------------------------------------------------------------------
\* Specification SpecMutex: cores that lock one TicketMutex and drop the
\* guard, any number of times
\* ------------------------------------------------------------------------

\* A core calls lock(): the fetch_add on next_ticket.
Lock(c) ==
    /\ pc[c] = "idle"
    /\ take_ticket(c)
    /\ issued(c)
    /\ pc' = [pc EXCEPT ![c] = "spin"]
    /\ UNCHANGED <<now_serving, grant, rangeVars, panicVars, allocVars, done>>

\* One iteration of the spin loop that finds another ticket being served.
Spin(c) ==
    /\ pc[c] = "spin"
    /\ ~spin_done(c)
    /\ UNCHANGED vars

\* The iteration of the spin loop that finds the core's ticket being
\* served: lock() returns the guard.
Acquire(c) ==
    /\ pc[c] = "spin"
    /\ spin_done(c)
    /\ granted(c)
    /\ lock_returns(c)
    /\ pc' = [pc EXCEPT ![c] = "held"]
    /\ UNCHANGED <<next_ticket, now_serving, rangeVars, panicVars, allocVars, done>>

\* The core drops its guard.
Drop(c) ==
    /\ pc[c] = "held"
    /\ guard_drop
    /\ pc' = [pc EXCEPT ![c] = "idle"]
    /\ UNCHANGED <<next_ticket, my_ticket, order, grant, rangeVars, panicVars, allocVars, done>>

MutexNext ==
    \/ \E c \in Cores : Lock(c)
    \/ \E c \in Cores : Spin(c)
    \/ \E c \in Cores : Acquire(c)
    \/ \E c \in Cores : Drop(c)

SpecMutex == Init /\ [][MutexNext]_vars

\* Every core keeps executing its spin loop, and every core that holds the
\* guard drops it.
MutexFairness ==
    \A c \in Cores : WF_vars(Acquire(c)) /\ WF_vars(Drop(c))

SpecMutexFair == Init /\ [][MutexNext]_vars /\ MutexFairness

\* The cores that are past the spin loop and have not released yet.
Holders == {c \in Cores : pc[c] = "held"}

\* C6: at most one TicketMutexGuard of the mutex exists at any time.
C6_MutualExclusion == Cardinality(Holders) <= 1

\* One core holds the guard while all the others spin.
C6_Witness ==
    /\ Cardinality(Holders) = 1
    /\ \A c \in Cores \ Holders : pc[c] = "spin"

\* C7: a core leaves the spin loop only when it is the oldest of the cores
\* whose ticket has been issued and not served: service is in ticket order.
C7_Fifo == grant.core = grant.first

\* A core was granted the lock while two cores with later tickets waited.
C7_Witness ==
    /\ grant.core # 0
    /\ Holders = {grant.core}
    /\ Len(order) >= 2

\* C8: with the cores running their spin loops and every holder dropping
\* its guard, every core that has taken a ticket acquires the lock.
C8_StarvationFree ==
    \A c \in Cores : (pc[c] = "spin") ~> (pc[c] = "held")

\* A core holds the lock with the last ticket before next_ticket wraps and
\* two cores wait behind it with the tickets issued after the wrap.
C8_Witness ==
    /\ grant.core # 0
    /\ pc[grant.core] = "held"
    /\ now_serving = USIZE_MOD - 1
    /\ next_ticket = fetch_add(fetch_add(fetch_add(now_serving)))
    /\ Len(order) = 2
    /\ \A k \in 1..2 : pc[order[k]] = "spin" /\ my_ticket[order[k]] = k - 1

\* ------------------------------------------------------------------------
\* Specification SpecAlloc: cores that call mm::init, GlobalAlloc::alloc
\* and GlobalAlloc::dealloc on GLOBALS.free_memory
\* ------------------------------------------------------------------------

\* The cores that call the allocator.
AllocCores == 1..NALLOC

\* A core enters GLOBALS.free_memory().lock() in the call `rec`.
EnterLock(c, rec) ==
    /\ take_ticket(c)
    /\ issued(c)
    /\ call' = [call EXCEPT ![c] = rec]
    /\ pc' = [pc EXCEPT ![c] = "spin"]
    /\ UNCHANGED <<now_serving, grant>>

\* try_alloc with a zero-sized layout: Ok(null) without locking.
AllocNull(c, layout) ==
    /\ pc[c] = "idle"
    /\ layout.size = 0
    /\ UNCHANGED vars

\* try_alloc with an alignment that is no power of two: Err(InvalidAlign),
\* which alloc turns into a panic.
AllocInvalidAlign(c, layout) ==
    /\ pc[c] = "idle"
    /\ layout.size # 0
    /\ count_ones(layout.align) # 1
    /\ call' = [call EXCEPT
                   ![c] = CallRec("alloc", layout, Range_default, "InvalidAlign")]
    /\ pc' = [pc EXCEPT ![c] = "panic"]
    /\ UNCHANGED <<rangeVars, panicVars, done, next_ticket, now_serving, my_ticket, order,
                   grant, free_memory, boot, blocks>>

\* try_alloc up to the fetch_add of lock().
AllocLock(c, layout) ==
    /\ pc[c] = "idle"
    /\ BagCardinality(blocks[c]) < MaxBlocks
    /\ layout.size # 0
    /\ count_ones(layout.align) = 1
    /\ EnterLock(c, CallRec("alloc", layout, Range_default, "Run"))
    /\ UNCHANGED <<rangeVars, panicVars, done, free_memory, boot, blocks>>

\* try_alloc with the guard: the Uninitialized test and the search for a
\* region.
AllocScan(c) ==
    /\ pc[c] = "held"
    /\ call[c].fn = "alloc"
    /\ IF ~free_memory.some
       THEN /\ call' = [call EXCEPT ![c].res = "Uninitialized"]
            /\ pc' = [pc EXCEPT ![c] = "unlock"]
       ELSE LET found == find_region(free_memory.set,
                                     alloc_size(call[c].layout),
                                     call[c].layout.align, 0) IN
            IF found.res # "Ok"
            THEN /\ call' = [call EXCEPT ![c].res = found.res]
                 /\ pc' = [pc EXCEPT ![c] = "unlock"]
            ELSE /\ call' = [call EXCEPT ![c].reserved = found.reserved]
                 /\ pc' = [pc EXCEPT ![c] = "remove"]
    /\ UNCHANGED <<rangeVars, panicVars, done, next_ticket, now_serving, my_ticket, order,
                   grant, free_memory, boot, blocks>>

\* try_alloc: free_mem.remove(reserved)?.
AllocRemove(c) ==
    /\ pc[c] = "remove"
    /\ LET r == remove(free_memory.set, call[c].reserved) IN
        /\ free_memory' = [free_memory EXCEPT !.set = r.set]
        /\ call' = [call EXCEPT ![c].res = r.res]
    /\ pc' = [pc EXCEPT ![c] = "unlock"]
    /\ UNCHANGED <<rangeVars, panicVars, done, next_ticket, now_serving, my_ticket, order,
                   grant, boot, blocks>>

\* The first tests of try_dealloc for a block the core holds, up to the
\* fetch_add of lock(): the pointer is not null, the size is not zero and
\* the alignment is a power of two.
DeallocLock(c) ==
    \E b \in BagToSet(blocks[c]) :
        /\ pc[c] = "idle"
        /\ b.ptr # 0
        /\ b.layout.size # 0
        /\ count_ones(b.layout.align) = 1
        /\ blocks' = [blocks EXCEPT ![c] = @ (-) SetToBag({b})]
        /\ EnterLock(c, CallRec("dealloc", b.layout, Range(b.ptr, b.ptr),
                                "Run"))
        /\ UNCHANGED <<rangeVars, panicVars, done, free_memory, boot>>

\* try_dealloc with the guard: the Uninitialized test and
\* free_mem.insert(reserved)?.
DeallocInsert(c) ==
    /\ pc[c] = "held"
    /\ call[c].fn = "dealloc"
    /\ LET start == call[c].reserved.start
           size == alloc_size(call[c].layout)
       IN IF ~free_memory.some
          THEN /\ call' = [call EXCEPT ![c].res = "Uninitialized"]
               /\ UNCHANGED free_memory
          ELSE IF u64_overflows(start + (size - 1))
          THEN /\ call' = [call EXCEPT ![c].res = "IntegerOverflow"]
               /\ UNCHANGED free_memory
          ELSE LET reserved == Range_new(start, start + (size - 1)) IN
               IF reserved.res # "Ok"
               THEN /\ call' = [call EXCEPT ![c].res = reserved.res]
                    /\ UNCHANGED free_memory
               ELSE LET r == insert(free_memory.set, reserved.range) IN
                    /\ free_memory' = [free_memory EXCEPT !.set = r.set]
                    /\ call' = [call EXCEPT ![c].res = r.res,
                                            ![c].reserved = reserved.range]
    /\ pc' = [pc EXCEPT ![c] = "unlock"]
    /\ UNCHANGED <<rangeVars, panicVars, done, next_ticket, now_serving, my_ticket, order,
                   grant, boot, blocks>>

\* mm::init up to the fetch_add of lock().
InitLock(c) ==
    /\ pc[c] = "idle"
    /\ EnterLock(c, CallRec("init", Layout(0, 1), Range_default, "Run"))
    /\ UNCHANGED <<rangeVars, panicVars, done, free_memory, boot, blocks>>

\* mm::init without the `is_some` test: the set is built and stored by
\* every call.
InitBuild_rebuild(c) ==
    /\ pc[c] = "held"
    /\ call[c].fn = "init"
    /\ LET r == build_free_mem(boot) IN
        /\ call' = [call EXCEPT ![c].res = r.res]
        /\ free_memory' = IF r.res = "Ok" THEN Some(r.set) ELSE free_memory
    /\ pc' = [pc EXCEPT ![c] = "unlock"]
    /\ UNCHANGED <<rangeVars, panicVars, done, next_ticket, now_serving, my_ticket, order,
                   grant, boot, blocks>>

\* mm::init with the guard: nothing when the set is there, else the set is
\* built and stored.
InitBuild(c) ==
    /\ pc[c] = "held"
    /\ call[c].fn = "init"
    /\ IF free_memory.some
       THEN /\ call' = [call EXCEPT ![c].res = "Ok"]
            /\ UNCHANGED free_memory
       ELSE LET r == build_free_mem(boot) IN
            /\ call' = [call EXCEPT ![c].res = r.res]
            /\ free_memory' = IF r.res = "Ok" THEN Some(r.set) ELSE free_memory
    /\ pc' = [pc EXCEPT ![c] = "unlock"]
    /\ UNCHANGED <<rangeVars, panicVars, done, next_ticket, now_serving, my_ticket, order,
                   grant, boot, blocks>>

\* mm::free_memory_size up to the fetch_add of lock().
SizeLock(c) ==
    /\ pc[c] = "idle"
    /\ EnterLock(c, CallRec("free_memory_size", Layout(0, 1), Range_default,
                            "Run"))
    /\ UNCHANGED <<rangeVars, panicVars, done, free_memory, boot, blocks>>

\* mm::free_memory_size with the guard: the Uninitialized test and
\* free_mem.size().
SizeRead(c) ==
    /\ pc[c] = "held"
    /\ call[c].fn = "free_memory_size"
    /\ call' = [call EXCEPT ![c].res = free_memory_size(free_memory).res]
    /\ pc' = [pc EXCEPT ![c] = "unlock"]
    /\ UNCHANGED <<rangeVars, panicVars, done, next_ticket, now_serving,
                   my_ticket, order, grant, free_memory, boot, blocks>>

\* The guard is dropped and the call returns: alloc hands the block to the
\* core; an error makes alloc, dealloc or the caller of init or of
\* free_memory_size panic.
Return(c) ==
    /\ pc[c] = "unlock"
    /\ guard_drop
    /\ IF call[c].res # "Ok"
       THEN /\ pc' = [pc EXCEPT ![c] = "panic"]
            /\ UNCHANGED <<call, blocks>>
       ELSE /\ pc' = [pc EXCEPT ![c] = "idle"]
            /\ call' = [call EXCEPT ![c] = NoCall]
            /\ blocks' = IF call[c].fn = "alloc"
                         THEN [blocks EXCEPT ![c] =
                                  @ (+) SetToBag({Block(call[c].reserved.start,
                                                        call[c].layout)})]
                         ELSE blocks
    /\ UNCHANGED <<rangeVars, panicVars, done, next_ticket, my_ticket, order, grant,
                   free_memory, boot>>

AllocInit ==
    /\ RangeInit
    /\ MutexInit
    /\ GlobalsInit
    /\ boot \in {BootConfigs[k] : k \in DOMAIN BootConfigs}

AllocNext ==
    \/ \E c \in AllocCores, layout \in Layouts : AllocNull(c, layout)
    \/ \E c \in AllocCores, layout \in Layouts : AllocInvalidAlign(c, layout)
    \/ \E c \in AllocCores, layout \in Layouts : AllocLock(c, layout)
    \/ \E c \in AllocCores : Spin(c)
    \/ \E c \in AllocCores : Acquire(c)
    \/ \E c \in AllocCores : AllocScan(c)
    \/ \E c \in AllocCores : AllocRemove(c)
    \/ \E c \in AllocCores : DeallocLock(c)
    \/ \E c \in AllocCores : DeallocInsert(c)
    \/ \E c \in AllocCores : InitLock(c)
    \/ \E c \in AllocCores : InitBuild(c)
    \/ \E c \in AllocCores : SizeLock(c)
    \/ \E c \in AllocCores : SizeRead(c)
    \/ \E c \in AllocCores : Return(c)

SpecAlloc == AllocInit /\ [][AllocNext]_vars

\* The range of addresses of a block: [ptr, ptr + alloc_size - 1].
BlockRange(b) == Range(b.ptr, b.ptr + alloc_size(b.layout) - 1)

\* The blocks a core holds, each tagged with the core and a position, so
\* that equal blocks stay distinct.
HeldBy(c) ==
    {<<c, n, b>> : <<n, b>> \in
        {nb \in (1..MaxBlocks) \X BagToSet(blocks[c]) :
            nb[1] <= CopiesIn(nb[2], blocks[c])}}

\* The block of a dealloc call that has not put it back in the free set:
\* the call is waiting for the lock, or it failed.
InDealloc(c) ==
    IF call[c].fn = "dealloc" /\ call[c].res # "Ok"
    THEN {<<c, 0, Block(call[c].reserved.start, call[c].layout)>>}
    ELSE {}

\* The block of an alloc call that has taken it out of the free set and has
\* not returned yet.
InAlloc(c) ==
    IF call[c].fn = "alloc" /\ call[c].res = "Ok"
    THEN {<<c, 0, Block(call[c].reserved.start, call[c].layout)>>}
    ELSE {}

\* The blocks returned by alloc and not given back by dealloc.
Returned == UNION {HeldBy(c) \cup InDealloc(c) : c \in Cores}

\* The blocks that are out of the free set.
Outstanding == Returned \cup UNION {InAlloc(c) : c \in Cores}

\* The sum of the allocation sizes of a set of tagged blocks.
RECURSIVE SumAllocSizes(_)
SumAllocSizes(items) ==
    IF items = {} THEN 0
    ELSE LET x == CHOOSE y \in items : TRUE IN
         alloc_size(x[3].layout) + SumAllocSizes(items \ {x})

\* C9: the blocks returned by successful alloc calls of concurrently running
\* cores and not yet deallocated are pairwise disjoint.
C9_BlocksDisjoint ==
    \A x \in Returned, y \in Returned :
        x # y => ~overlaps(BlockRange(x[3]), BlockRange(y[3]))

\* Each core holds two blocks and went through the lock while the other one
\* was waiting for it.
C9_Witness ==
    /\ \A c \in AllocCores : BagCardinality(blocks[c]) = 2
    /\ \E c \in AllocCores : pc[c] = "spin" /\ call[c].fn = "init"
    /\ \E c \in AllocCores : pc[c] = "held"

\* C10: the allocation sizes of the outstanding blocks plus the size of the
\* free set add up to the size of the free set that init built.
C10_Conservation ==
    free_memory.some =>
        SumAllocSizes(Outstanding) + RangeSet_size(free_memory.set)
            = RangeSet_size(build_free_mem(boot).set)

\* Blocks of both size classes are out, one of them taken from the middle of
\* a free region by a call that has not returned yet.
C10_Witness ==
    /\ free_memory.some
    /\ \E x \in Outstanding : alloc_size(x[3].layout) = 32
    /\ \E c \in AllocCores :
        /\ pc[c] = "unlock"
        /\ InAlloc(c) # {}
        /\ alloc_size(call[c].layout) = 64
        /\ free_memory.set.in_use = 3
    /\ SumAllocSizes(Outstanding) >= 96

\* ------------------------------------------------------------------------
\* Specification SpecCalls: init, try_alloc, try_dealloc and
\* free_memory_size called one at a time, each running from its first
\* statement to its return
\* ------------------------------------------------------------------------

\* The core that makes the calls.
Caller == 1

\* lock() by a call that runs alone, and the drop of its guard: the ticket
\* it takes is the one being served, so the spin loop ends at once.
lock_and_drop ==
    /\ next_ticket = now_serving
    /\ next_ticket' = fetch_add(next_ticket)
    /\ guard_drop

\* The effect of a call on the mutex and on the value it protects.
Through(out) ==
    /\ IF out.locked THEN lock_and_drop
                     ELSE UNCHANGED <<next_ticket, now_serving>>
    /\ free_memory' = out.mem

\* The caller calls try_alloc and keeps the block it gets.
CallAlloc(layout) ==
    LET out == try_alloc(free_memory, layout) IN
    /\ BagCardinality(blocks[Caller]) < MaxBlocks
    /\ Through(out)
    /\ blocks' = IF out.res = "Ok" /\ out.val # 0
                 THEN [blocks EXCEPT ![Caller] =
                          @ (+) SetToBag({Block(out.val, layout)})]
                 ELSE blocks
    /\ done' = Done("alloc", 0, layout, out, free_memory,
                    <<next_ticket, now_serving>>, None)
    /\ UNCHANGED <<rangeVars, panicVars, my_ticket, pc, order, grant, boot, call>>

\* The caller calls try_dealloc with a block it holds and the layout it
\* requested it with.
CallDealloc(b) ==
    LET out == try_dealloc(free_memory, b.ptr, b.layout) IN
    /\ BagIn(b, blocks[Caller])
    /\ Through(out)
    /\ blocks' = [blocks EXCEPT ![Caller] = @ (-) SetToBag({b})]
    /\ done' = Done("dealloc", b.ptr, b.layout, out, free_memory,
                    <<next_ticket, now_serving>>,
                    IF /\ done.fn = "alloc"
                       /\ done.out.res = "Ok"
                       /\ Block(done.out.val, done.layout) = b
                    THEN done.old ELSE None)
    /\ UNCHANGED <<rangeVars, panicVars, my_ticket, pc, order, grant, boot, call>>

\* The caller calls try_dealloc with a pointer that no alloc returned.
CallDeallocForeign(ptr, layout) ==
    LET out == try_dealloc(free_memory, ptr, layout) IN
    /\ Through(out)
    /\ done' = Done("dealloc", ptr, layout, out, free_memory,
                    <<next_ticket, now_serving>>, None)
    /\ UNCHANGED <<rangeVars, panicVars, my_ticket, pc, order, grant, boot, call, blocks>>

\* The caller calls mm::init.
CallInit ==
    LET out == init(free_memory, boot) IN
    /\ Through(out)
    /\ done' = Done("init", 0, Layout(0, 1), out, free_memory,
                    <<next_ticket, now_serving>>, None)
    /\ UNCHANGED <<rangeVars, panicVars, my_ticket, pc, order, grant, boot, call, blocks>>

\* The caller calls mm::free_memory_size.
CallFreeMemorySize ==
    LET out == free_memory_size(free_memory) IN
    /\ Through(out)
    /\ done' = Done("free_memory_size", 0, Layout(0, 1), out, free_memory,
                    <<next_ticket, now_serving>>, None)
    /\ UNCHANGED <<rangeVars, panicVars, my_ticket, pc, order, grant, boot, call, blocks>>

CallsInit ==
    /\ RangeInit
    /\ MutexInit
    /\ GlobalsInit
    /\ boot \in {BootConfigs[k] : k \in DOMAIN BootConfigs}
                \cup {EdgeBoots[k] : k \in DOMAIN EdgeBoots}
                \cup {FailBoots[k] : k \in DOMAIN FailBoots}

CallsNext ==
    \/ \E layout \in CallLayouts : CallAlloc(layout)
    \/ \E b \in BagToSet(blocks[Caller]) : CallDealloc(b)
    \/ \E ptr \in ForeignPtrs, layout \in ForeignLayouts :
        CallDeallocForeign(ptr, layout)
    \/ CallInit
    \/ CallFreeMemorySize

SpecCalls == CallsInit /\ [][CallsNext]_vars

\* C11: when alloc succeeds on an initialized free set for a request with a
\* nonzero size and a power-of-two alignment, dealloc of the returned
\* address with the same layout succeeds and restores ranges() to its value
\* before the alloc.
C11_RoundTrip ==
    (done.fn = "dealloc" /\ done.before_alloc.some) =>
        /\ done.out.res = "Ok"
        /\ ranges(free_memory.set) = ranges(done.before_alloc.set)

\* The addresses at which free sets are compared: address 0 and, for every
\* memory region of the boot, each address from the one below its part
\* above the kernel to the one above its end.
AllocProbe ==
    {0} \cup UNION {
        (max(boot.memory[k][1], KernelEnd) - 1) ..
            (IF boot.memory[k][1] + boot.memory[k][2] > U64_MAX
             THEN U64_MAX ELSE boot.memory[k][1] + boot.memory[k][2])
        : k \in DOMAIN boot.memory}

\* The last call was a successful alloc of a block (not of the null pointer).
AllocatedBlock ==
    /\ done.fn = "alloc"
    /\ done.out.res = "Ok"
    /\ done.layout.size # 0

\* The block the last alloc returned: [addr, addr + alloc_size - 1].
DoneBlock == Range(done.out.val, done.out.val + alloc_size(done.layout) - 1)

\* C12: a successful alloc with a nonzero size returns a multiple of the
\* requested alignment; its block lay inside one free entry before the
\* call; after the call no address of the block is free and every other
\* address is free iff it was.
C12_AllocTakesBlock ==
    AllocatedBlock =>
        /\ done.out.val % done.layout.align = 0
        /\ \E k \in 0..(done.old.set.in_use - 1) :
            contains_range(done.old.set.ranges[k], DoneBlock)
        /\ \A p \in AllocProbe :
            Covered(free_memory.set, p) <=>
                (Covered(done.old.set, p) /\ ~contains_point(DoneBlock, p))

\* An alloc took its block from the middle of the second free entry: the
\* entry did not start at a multiple of the alignment.
C12_Witness ==
    /\ AllocatedBlock
    /\ done.old.set.in_use = 2
    /\ free_memory.set.in_use = 3
    /\ done.old.set.ranges[1].start < done.out.val
    /\ DoneBlock.end < done.old.set.ranges[1].end

\* The least multiple of a that is not below x.
AlignUp(x, a) == x + ((a - (x % a)) % a)

\* A free entry can hold an aligned block of `size` bytes.
CanHold(entry, size, align) ==
    AlignUp(entry.start, align) + (size - 1) <= entry.end

\* Every address of the range is free.  The entries of a free set do not
\* touch each other, so a range is free when one entry contains it.
EntirelyFree(set, range) ==
    \E k \in 0..(set.in_use - 1) : contains_range(set.ranges[k], range)

\* C13: alloc is first-fit: its block starts at the first multiple of the
\* alignment in the lowest free entry that can hold the block, and no
\* smaller multiple of the alignment starts a block that is entirely free.
C13_FirstFit ==
    AllocatedBlock =>
        LET size == alloc_size(done.layout)
            align == done.layout.align
            old == done.old.set
        IN /\ \E k \in 0..(old.in_use - 1) :
                /\ CanHold(old.ranges[k], size, align)
                /\ done.out.val = AlignUp(old.ranges[k].start, align)
                /\ \A j \in 0..(k - 1) : ~CanHold(old.ranges[j], size, align)
           /\ \A a \in AllocProbe :
                (a % align = 0 /\ a < done.out.val) =>
                    ~EntirelyFree(old, Range(a, a + (size - 1)))

\* An alloc passed over a free entry that could not hold its block while
\* two higher entries could, and took the lower of the two.
C13_Witness ==
    /\ AllocatedBlock
    /\ done.old.set.in_use = 3
    /\ ~CanHold(done.old.set.ranges[0], alloc_size(done.layout),
                done.layout.align)
    /\ CanHold(done.old.set.ranges[2], alloc_size(done.layout),
               done.layout.align)
    /\ contains_point(done.old.set.ranges[1], done.out.val)

\* The last call was an alloc with a nonzero size and a power-of-two
\* alignment that found the free set initialized.
SearchedAlloc ==
    /\ done.fn = "alloc"
    /\ done.layout.size # 0
    /\ count_ones(done.layout.align) = 1
    /\ done.old.some

\* No entry of the free set the last call found can hold its block.
NoneCanHold ==
    \A k \in 0..(done.old.set.in_use - 1) :
        ~CanHold(done.old.set.ranges[k], alloc_size(done.layout),
                 done.layout.align)

\* The block placed at the first multiple of the alignment in the entry
\* would end above u64::MAX.
PastTheEnd(entry, size, align) ==
    AlignUp(entry.start, align) + (size - 1) > U64_MAX

\* C14 as stated: when no free entry can hold the aligned block, alloc
\* fails with NotSatisfiable and leaves the free set unchanged.
C14_NotSatisfiable ==
    (SearchedAlloc /\ NoneCanHold) =>
        /\ done.out.res = "NotSatisfiable"
        /\ free_memory = done.old

\* C14 as amended: when no free entry can hold the aligned block, alloc
\* fails and leaves the free set unchanged; the error is IntegerOverflow
\* when the block placed in some free entry would end above u64::MAX, and
\* NotSatisfiable otherwise.
C14_NotSatisfiableOrOverflow ==
    (SearchedAlloc /\ NoneCanHold) =>
        /\ done.out.res =
            IF \E k \in 0..(done.old.set.in_use - 1) :
                    PastTheEnd(done.old.set.ranges[k],
                               alloc_size(done.layout), done.layout.align)
            THEN "IntegerOverflow" ELSE "NotSatisfiable"
        /\ free_memory = done.old

\* An alloc went through three free entries and found none that holds its
\* block.
C14_Witness ==
    /\ SearchedAlloc
    /\ NoneCanHold
    /\ done.old.set.in_use = 3
    /\ done.out.res = "NotSatisfiable"

\* C15: whenever some entry of the initialized free set can hold an aligned
\* block of the allocation size, alloc succeeds, also when the set holds N
\* entries.
C15_Satisfiable ==
    (SearchedAlloc /\ ~NoneCanHold) => done.out.res = "Ok"

\* The size classes of the allocator.
SizeClasses == {32, 64, 128, 256, 512}

\* The smallest size class that is not below n (n <= 512).
ClassOf(n) ==
    CHOOSE c \in SizeClasses :
        c >= n /\ \A d \in SizeClasses : d >= n => c <= d

\* The last call removed a block from the free set or put one back.
MovedBlock ==
    /\ done.fn \in {"alloc", "dealloc"}
    /\ done.out.locked
    /\ done.out.res = "Ok"

\* C16 as stated: the size of the block that alloc removes and dealloc
\* reinserts is the smallest size class that is not below the requested
\* size, and for a requested size above 512 the requested size padded to a
\* multiple of the alignment.
C16_SizeClassOfRequest ==
    MovedBlock =>
        Range_size(done.out.reserved) =
            IF done.layout.size <= 512
            THEN ClassOf(done.layout.size)
            ELSE AlignUp(done.layout.size, done.layout.align)

\* C16 as amended: the size of the block that alloc removes and dealloc
\* reinserts is the requested size padded to a multiple of the alignment
\* and then rounded up to the smallest size class that is not below it; a
\* padded size above 512 is used as it is.
C16_SizeClassOfPadded ==
    MovedBlock =>
        LET padded == AlignUp(done.layout.size, done.layout.align) IN
        Range_size(done.out.reserved) =
            IF padded <= 512 THEN ClassOf(padded) ELSE padded

\* A dealloc put back a block of a request above the last size class whose
\* size was no multiple of its alignment.
C16_Witness ==
    /\ MovedBlock
    /\ done.fn = "dealloc"
    /\ done.layout.size > 512
    /\ done.layout.size % done.layout.align # 0
    /\ Covered(free_memory.set, done.ptr + done.layout.size)

\* The last call was a dealloc with a non-null pointer, a nonzero size and
\* a power-of-two alignment that found the free set initialized.
InsertingDealloc ==
    /\ done.fn = "dealloc"
    /\ done.ptr # 0
    /\ done.layout.size # 0
    /\ count_ones(done.layout.align) = 1
    /\ done.old.some

\* The search of the last alloc came to a free entry in which the block
\* would end above u64::MAX: no entry can hold the block (the entries are
\* in ascending order, and one that can hold it ends the search).
SearchPastTheEnd ==
    /\ NoneCanHold
    /\ \E k \in 0..(done.old.set.in_use - 1) :
        PastTheEnd(done.old.set.ranges[k], alloc_size(done.layout),
                   done.layout.align)

Untouched ==
    /\ ~done.out.locked
    /\ <<next_ticket, now_serving>> = done.tickets
    /\ free_memory = done.old

\* C18: alloc with size 0 returns the null pointer without taking the lock:
\* next_ticket, now_serving and the free set are unchanged, before init as
\* after it and whatever the alignment.
C18_ZeroSizeAlloc ==
    (done.fn = "alloc" /\ done.layout.size = 0) =>
        /\ done.out.res = "Ok"
        /\ done.out.val = 0
        /\ Untouched

\* A zero-size alloc with an alignment that is no power of two was made
\* before init, after calls that had moved the ticket counters.
C18_Witness ==
    /\ done.fn = "alloc"
    /\ done.layout = Layout(0, 3)
    /\ ~done.old.some
    /\ done.tickets = <<2, 2>>
    /\ done.out.res = "Ok"

\* A power of two.
IsPowerOfTwo(a) == \E n \in 0..U64_BITS : a = 2^n

\* C19: alloc with a nonzero size and an alignment that is zero or no power
\* of two fails with InvalidAlign; dealloc fails with NullPtr for a null
\* pointer, else with ZeroSize for size 0, else with InvalidAlign for such
\* an alignment; none of these calls takes the lock or changes the free set.
C19_ArgumentValidation ==
    /\ (done.fn = "alloc" /\ done.layout.size # 0
            /\ ~IsPowerOfTwo(done.layout.align)) =>
        /\ done.out.res = "InvalidAlign"
        /\ Untouched
    /\ (done.fn = "dealloc"
            /\ (done.ptr = 0 \/ done.layout.size = 0
                    \/ ~IsPowerOfTwo(done.layout.align))) =>
        /\ done.out.res = IF done.ptr = 0 THEN "NullPtr"
                          ELSE IF done.layout.size = 0 THEN "ZeroSize"
                          ELSE "InvalidAlign"
        /\ Untouched

\* A dealloc of the null pointer with size 0 and a bad alignment was
\* rejected while the free set was initialized and a block was out.
C19_Witness ==
    /\ done.fn = "dealloc"
    /\ done.ptr = 0
    /\ done.layout = Layout(0, 3)
    /\ done.out.res = "NullPtr"
    /\ free_memory.some
    /\ BagCardinality(blocks[Caller]) = 1

\* C20: while the shared value is None, every alloc with a nonzero size and
\* a valid alignment, every dealloc with valid arguments and every
\* free_memory_size fails with Uninitialized, leaves the value None and
\* releases the lock it took.
C20_Uninitialized ==
    (/\ ~done.old.some
     /\ \/ done.fn = "alloc" /\ done.layout.size # 0
            /\ IsPowerOfTwo(done.layout.align)
        \/ done.fn = "dealloc" /\ done.ptr # 0 /\ done.layout.size # 0
            /\ IsPowerOfTwo(done.layout.align)
        \/ done.fn = "free_memory_size") =>
        /\ done.out.res = "Uninitialized"
        /\ ~free_memory.some
        /\ done.out.locked
        /\ next_ticket = fetch_add(done.tickets[1])
        /\ now_serving = fetch_add(done.tickets[2])
        /\ now_serving = next_ticket

\* A dealloc with valid arguments failed before init, taking the ticket
\* with which next_ticket wraps.
C20_Witness ==
    /\ done.fn = "dealloc"
    /\ ~done.old.some
    /\ done.out.res = "Uninitialized"
    /\ done.tickets[1] = USIZE_MOD - 1
    /\ next_ticket = 0

\* ------------------------------------------------------------------------
\* mm::init: idempotence, failure and the set it builds
\* ------------------------------------------------------------------------

\* Core c is in mm::init with the guard and takes the step that tests
\* `free_mem_mg.is_some()`.
InitStep(c) ==
    /\ pc[c] = "held"
    /\ call[c].fn = "init"
    /\ pc'[c] = "unlock"

\* C21: init is idempotent. A call to init that finds a value in the shared
\* Option returns Ok and leaves it as it found it, allocations made since
\* the first init included; with several cores in init at once, the only
\* step that stores a value is the one that finds None, the value it stores
\* is the one a single init builds, and no step takes the value away again,
\* so exactly one of the cores builds the set.
C21_InitIdempotent ==
    [][/\ \A c \in AllocCores :
            InitStep(c) /\ free_memory.some
                => free_memory' = free_memory /\ call'[c].res = "Ok"
       /\ free_memory.some => free_memory'.some
       /\ ~free_memory.some /\ free_memory'.some
            => /\ \E c \in AllocCores : InitStep(c)
               /\ free_memory' = init(None, boot).mem]_vars

\* A core returns Ok from an init that found the set with a block taken
\* out of it, while the other core waits in init for the lock.
C21_Witness ==
    \E c, d \in AllocCores :
        /\ c # d
        /\ pc[c] = "unlock" /\ call[c].fn = "init" /\ call[c].res = "Ok"
        /\ pc[d] = "spin" /\ call[d].fn = "init"
        /\ free_memory.some
        /\ free_memory # init(None, boot).mem
        /\ Outstanding # {}

UsableRegions(b) ==
    {Range(b.memory[k][1], b.memory[k][1] + b.memory[k][2] - 1) :
        k \in DOMAIN b.memory}

\* The regions that init removes: the devicetree blob, the entries of the
\* memory reservation block and [0, KERNEL_BASE + KERNEL_MAX_SIZE - 1].
ReservedRegions(b) ==
    {Range(b.dtb_ptr32, b.dtb_ptr32 + b.totalsize - 1)}
        \cup {Range(b.rsv[k][1], b.rsv[k][1] + b.rsv[k][2] - 1) :
                  k \in DOMAIN b.rsv}
        \cup {Range(0, KERNEL_BASE + KERNEL_MAX_SIZE - 1)}

\* The addresses at which two unions of these regions and of the entries of
\* `self` can differ: the end points of all of them and their neighbours.
BootProbe(b, self) ==
    LET rs == UsableRegions(b) \cup ReservedRegions(b)
                \cup {ranges(self)[k] : k \in DOMAIN ranges(self)}
        ends == {r.start : r \in rs} \cup {r.end : r \in rs}
    IN {p \in UNION {{e - 1, e, e + 1} : e \in ends} : p >= 0 /\ p <= U64_MAX}

\* The call that has just returned is an init that built the set.
BuiltByInit ==
    /\ done.fn = "init"
    /\ done.out.res = "Ok"
    /\ ~done.old.some

\* C23: after a successful init an address is free exactly when it lies in
\* a usable region and in no reserved region (the devicetree blob, the
\* entries of the memory reservation block, [0, KERNEL_BASE +
\* KERNEL_MAX_SIZE - 1]); and while every dealloc gives back a block that
\* alloc returned, with its layout, no entry of the free set and no block
\* returned by alloc overlaps a reserved region.
C23_FreeAfterInit ==
    /\ BuiltByInit =>
            \A p \in BootProbe(boot, free_memory.set) :
                Covered(free_memory.set, p)
                    <=> /\ \E r \in UsableRegions(boot) : contains_point(r, p)
                        /\ \A r \in ReservedRegions(boot) : ~contains_point(r, p)
    /\ free_memory.some =>
            \A r \in ReservedRegions(boot) :
                /\ \A k \in DOMAIN ranges(free_memory.set) :
                        ~overlaps(ranges(free_memory.set)[k], r)
                /\ \A b \in BagToSet(blocks[Caller]) :
                        ~overlaps(BlockRange(b), r)
                /\ AllocatedBlock => ~overlaps(DoneBlock, r)

\* init has built the free set of a boot whose blob and whose reservation
\* entry both lie in the memory above the kernel.
C23_Witness ==
    /\ BuiltByInit
    /\ boot.rsv # <<>>
    /\ boot.dtb_ptr32 >= KernelEnd
    /\ free_memory.set.in_use = 3

\* ------------------------------------------------------------------------
\* Specification SpecPanic: cores that run kernel code, print!, the
\* GlobalAlloc hook and the panic handler. A call on GLOBALS.free_memory
\* runs from its lock() to the drop of its guard in one step; the lock
\* followed here is GLOBALS.uart_writer
\* ------------------------------------------------------------------------

\* The layouts passed to alloc: one that try_alloc accepts and one whose
\* alignment is no power of two.
HookLayouts == {Layout(64, 64), Layout(8, 3)}

\* lock() of GLOBALS.uart_writer with a re-entrant test: the loop also
\* ends for a core that holds a guard of the mutex.
uart_lock_returns_reentrant(c) ==
    cpu[c].ticket = uart_writer.now_serving \/ cpu[c].guard

\* lock() of GLOBALS.uart_writer: the spin loop ends for core c.
uart_lock_returns(c) == cpu[c].ticket = uart_writer.now_serving

\* lock() of GLOBALS.uart_writer, the fetch_add, by a core that moves to
\* `at`.
uart_lock(c, at) ==
    /\ cpu' = [cpu EXCEPT ![c].pc = at, ![c].ticket = uart_writer.next_ticket]
    /\ uart_writer' = [uart_writer EXCEPT !.next_ticket = fetch_add(@)]

\* The drop of a guard of GLOBALS.uart_writer.
uart_drop == uart_writer' = [uart_writer EXCEPT !.now_serving = fetch_add(@)]

\* Kernel code stores Some(UartWriter) through GLOBALS.uart_writer(), with
\* the lock free.
SetUartWriter(c) ==
    /\ cpu[c].pc = "run"
    /\ ~uart_writer.some
    /\ uart_writer.next_ticket = uart_writer.now_serving
    /\ uart_writer' = UartWriter(fetch_add(uart_writer.next_ticket),
                                 fetch_add(uart_writer.now_serving), TRUE)
    /\ UNCHANGED <<rangeVars, mutexVars, allocVars, done, cpu>>

\* Kernel code calls mm::init.
KernelInit(c) ==
    /\ cpu[c].pc = "run"
    /\ Through(init(free_memory, boot))
    /\ UNCHANGED <<rangeVars, panicVars, my_ticket, pc, order, grant, boot,
                   call, blocks, done>>

\* print!/println! up to the fetch_add of uart_writer().lock().
PrintLock(c) ==
    /\ cpu[c].pc = "run"
    /\ uart_lock(c, "lock")
    /\ UNCHANGED <<rangeVars, mutexVars, allocVars, done>>

\* One turn of the spin loop of uart_writer().lock() that finds another
\* ticket being served.
UartSpin(c) ==
    /\ cpu[c].pc \in {"lock", "plock"}
    /\ ~uart_lock_returns(c)
    /\ UNCHANGED vars

\* print!/println!: lock() returns the guard. With Some the core goes on to
\* write_fmt; with None the arm is empty and the guard is dropped.
PrintAcquire(c) ==
    /\ cpu[c].pc = "lock"
    /\ uart_lock_returns(c)
    /\ IF uart_writer.some
       THEN /\ cpu' = [cpu EXCEPT ![c].pc = "fmt", ![c].ticket = 0]
            /\ UNCHANGED uart_writer
       ELSE /\ cpu' = [cpu EXCEPT ![c].pc = "run", ![c].ticket = 0]
            /\ uart_drop
    /\ UNCHANGED <<rangeVars, mutexVars, allocVars, done>>

\* print!/println!: write_fmt returns and the guard is dropped.
PrintDone(c) ==
    /\ cpu[c].pc = "fmt"
    /\ cpu' = [cpu EXCEPT ![c].pc = "run"]
    /\ uart_drop
    /\ UNCHANGED <<rangeVars, mutexVars, allocVars, done>>

\* The hook gets `out` from try_alloc or try_dealloc: Ok returns to the
\* caller, an error is the panic! of unwrap_or_else, with the guard of
\* uart_writer still held when the caller was in write_fmt.
Hook(c, out) ==
    /\ cpu[c].pc \in {"run", "fmt"}
    /\ Through(out)
    /\ cpu' = IF out.res = "Ok" THEN cpu
              ELSE [cpu EXCEPT
                       ![c] = Cpu("panic", 0, @.pc = "fmt", 1, out.res, FALSE)]
    /\ UNCHANGED <<rangeVars, uart_writer, my_ticket, pc, order, grant, boot,
                   call, blocks, done>>

\* GlobalAlloc::alloc, called from kernel code or while the arguments of a
\* print! are formatted.
HookAlloc(c, layout) ==
    /\ layout \in HookLayouts
    /\ Hook(c, try_alloc(free_memory, layout))

\* GlobalAlloc::dealloc, called likewise, with a null pointer and the
\* layout of a small block.
HookDealloc(c) ==
    /\ cpu[c].pc \in {"run", "fmt"}
    /\ Hook(c, try_dealloc(free_memory, 0, Layout(8, 8)))

\* The panic handler up to the fetch_add of the lock() of its n-th print.
PanicLock(c) ==
    /\ cpu[c].pc = "panic"
    /\ uart_lock(c, "plock")
    /\ UNCHANGED <<rangeVars, mutexVars, allocVars, done>>

\* The n-th print of the panic handler is over, with or without output:
\* the guard is dropped, and after the third print the core enters the wfe
\* loop.
panic_printed(c, wrote) ==
    /\ uart_drop
    /\ cpu' = IF cpu[c].n < 3
              THEN [cpu EXCEPT ![c].pc = "panic", ![c].ticket = 0,
                               ![c].n = @ + 1]
              ELSE [cpu EXCEPT ![c].pc = "halt", ![c].ticket = 0,
                               ![c].written = wrote]

\* The panic handler: lock() returns the guard. With Some the core goes on
\* to write_fmt; with None nothing is written.
PanicAcquire(c) ==
    /\ cpu[c].pc = "plock"
    /\ uart_lock_returns(c)
    /\ IF uart_writer.some
       THEN /\ cpu' = [cpu EXCEPT ![c].pc = "pfmt", ![c].ticket = 0]
            /\ UNCHANGED uart_writer
       ELSE panic_printed(c, FALSE)
    /\ UNCHANGED <<rangeVars, mutexVars, allocVars, done>>

\* The panic handler: write_fmt of the banner, of the location, or of the
\* message with the error, returns.
PanicWrite(c) ==
    /\ cpu[c].pc = "pfmt"
    /\ panic_printed(c, TRUE)
    /\ UNCHANGED <<rangeVars, mutexVars, allocVars, done>>

\* The panic handler: loop { cpu::wfe() }.
Halt(c) ==
    /\ cpu[c].pc = "halt"
    /\ UNCHANGED vars

PanicInit ==
    /\ RangeInit
    /\ MutexInit
    /\ GlobalsInit
    /\ boot = BootConfigs[1]

PanicNext ==
    \/ \E c \in AllocCores : SetUartWriter(c)
    \/ \E c \in AllocCores : KernelInit(c)
    \/ \E c \in AllocCores : PrintLock(c)
    \/ \E c \in AllocCores : UartSpin(c)
    \/ \E c \in AllocCores : PrintAcquire(c)
    \/ \E c \in AllocCores : PrintDone(c)
    \/ \E c \in AllocCores, layout \in HookLayouts : HookAlloc(c, layout)
    \/ \E c \in AllocCores : HookDealloc(c)
    \/ \E c \in AllocCores : PanicLock(c)
    \/ \E c \in AllocCores : PanicAcquire(c)
    \/ \E c \in AllocCores : PanicWrite(c)
    \/ \E c \in AllocCores : Halt(c)

SpecPanic == PanicInit /\ [][PanicNext]_vars

\* A core that is in print! or in the panic handler keeps running: lock()
\* returns when its ticket is served, write_fmt returns, and the handler
\* goes from one print to the next.
PanicFairness ==
    \A c \in AllocCores :
        /\ WF_vars(PrintAcquire(c))
        /\ WF_vars(PrintDone(c))
        /\ WF_vars(PanicLock(c))
        /\ WF_vars(PanicAcquire(c))
        /\ WF_vars(PanicWrite(c))

SpecPanicFair == SpecPanic /\ PanicFairness

\* C24: an error of try_alloc or try_dealloc is fatal at the hook. In
\* every state in which the hook is called with the UART writer in place,
\* the state in which the core holds the guard of a print! included, the
\* message with the error is eventually written by the UART; and a core that
\* is in the panic handler never runs the caller's code again.
C24_Fatal ==
    /\ \A c \in AllocCores :
            (cpu[c].pc = "panic" /\ cpu[c].n = 1 /\ uart_writer.some)
                ~> cpu[c].written
    /\ [][\A c \in AllocCores :
              cpu[c].err # "none" => cpu'[c].pc \notin {"run", "lock", "fmt"}]_vars

\* Core c holds a guard of GLOBALS.uart_writer that it will not drop: it
\* panicked in write_fmt, and the panic handler does not return.
HoldsForever(c) == cpu[c].guard

\* Core c has called lock() on GLOBALS.uart_writer and has not got the
\* guard yet.
InLock(c) == cpu[c].pc \in {"lock", "plock"}

\* C30: the lock is not re-entrant and has no timeout. From the moment a
\* core holds a guard that it never drops, the ticket being served stays
\* the same, that core keeps the guard, every core that is in lock(), the
\* holder in its second lock() included, stays in lock(), and no core gets
\* the guard.
C30_NoReentryNoTimeout ==
    [][(\E h \in AllocCores : HoldsForever(h)) =>
          /\ uart_writer'.now_serving = uart_writer.now_serving
          /\ \A c \in AllocCores :
              /\ HoldsForever(c) => HoldsForever(c)'
              /\ InLock(c) => InLock(c)'
              /\ cpu'[c].pc \in {"fmt", "pfmt"} => cpu'[c].pc = cpu[c].pc]_vars

\* A core that holds the guard of its print! is in the lock() of the panic
\* handler, and the other core is in lock() with a later ticket.
C30_Witness ==
    \E h, c \in AllocCores :
        /\ h # c
        /\ HoldsForever(h)
        /\ cpu[h].pc = "plock"
        /\ InLock(c)
        /\ cpu[c].ticket = fetch_add(cpu[h].ticket)
        /\ uart_writer.next_ticket < uart_writer.now_serving

\* ------------------------------------------------------------------------
\* Specification SpecRange: Range::new, and Range::size and
\* Range::contains_point on the Range it returned
\* ------------------------------------------------------------------------

\* Range::new(start, end). `last` keeps the arguments next to the result.
RangeNew(start, end) ==
    LET r == Range_new(start, end) IN
    /\ last' = Call("Range::new", r.range, RangeSet_new,
                    [res |-> r.res, start |-> start, end |-> end])
    /\ UNCHANGED <<rangeset, mutexVars, allocVars, done, panicVars>>

\* `last.range` is a Range value: Range::default(), or what Range::new
\* returned in Ok.
HasRange ==
    \/ last.op \in {"new", "size", "contains_point"}
    \/ last.op = "Range::new" /\ last.res.res = "Ok"

\* size() on the Range.
RangeSize ==
    /\ HasRange
    /\ \E r \in Range_size_u64(last.range) :
        last' = Call("size", last.range, RangeSet_new, r)
    /\ UNCHANGED <<rangeset, mutexVars, allocVars, done, panicVars>>

\* contains_point(point) on the Range.
RangeContainsPoint(point) ==
    /\ HasRange
    /\ last' = Call("contains_point", last.range, RangeSet_new,
                    [point |-> point, val |-> contains_point(last.range, point)])
    /\ UNCHANGED <<rangeset, mutexVars, allocVars, done, panicVars>>

RangeNext ==
    \/ \E start, end \in Pts : RangeNew(start, end)
    \/ RangeSize
    \/ \E point \in Pts : RangeContainsPoint(point)

SpecRange == Init /\ [][RangeNext]_vars

\* C25: for every start <= end over the whole domain,
\* Range::new(start, end).size() is computed without overflow, equals
\* end - start + 1 and is not zero.
C25_Size ==
    last.op = "size" =>
        /\ last.res.res = "Ok"
        /\ last.res.val = last.range.end - last.range.start + 1
        /\ last.res.val # 0

\* C27: Range::new(start, end) returns InvalidBoundaries exactly when
\* start > end, and else a Range whose start and end are the arguments; so
\* every Range on which a method is called has start <= end.
C27_RangeNew ==
    /\ last.op = "Range::new" =>
        /\ last.res.res = "InvalidBoundaries" <=> last.res.start > last.res.end
        /\ last.res.start <= last.res.end =>
            /\ last.res.res = "Ok"
            /\ last.range.start = last.res.start
            /\ last.range.end = last.res.end
    /\ last.op \in {"size", "contains_point"} =>
        last.range.start <= last.range.end

\* contains_point(u64::MAX) has returned true on the Range that
\* Range::new(u64::MAX, u64::MAX) built.
C27_Witness ==
    /\ last.op = "contains_point"
    /\ last.range = Range(U64_MAX, U64_MAX)
    /\ last.res.point = U64_MAX
    /\ last.res.val

\* ------------------------------------------------------------------------
\* Specification SpecTop: a RangeSet under insert and remove of ranges that
\* start or end at the last addresses
\* ------------------------------------------------------------------------

\* End points: two low addresses and the last TopSpan + 1 addresses.
TopPts == {0, 2} \cup ((U64_MAX - TopSpan)..U64_MAX)

TopRanges ==
    {Range_new(s, e).range : <<s, e>> \in {pt \in TopPts \X TopPts : pt[1] <= pt[2]}}

TopNext ==
    \/ \E range \in TopRanges : Insert(range)
    \/ \E range \in TopRanges : Remove(range)

SpecTop == Init /\ [][TopNext]_vars

\* The entries of a RangeSet, as a set.
Entries(self) == {self.ranges[k] : k \in 0..(self.in_use - 1)}

\* C26: at the top of the address space, no insert or remove hits an
\* overflow or an underflow; after a successful insert of a range ending at
\* u64::MAX one entry holds u64::MAX and it starts at or below the range;
\* a range ending at u64::MAX - 1 is merged with an entry [u64::MAX,
\* u64::MAX]; a range ending at u64::MAX - 2 is not; inserting [u64::MAX,
\* u64::MAX] over itself changes nothing; removing [k, u64::MAX] from an
\* entry that contains k - 1 leaves that entry ending at k - 1.
C26_TopOfAddressSpace ==
    LET old == last.old
        r == last.range
        top == Range(U64_MAX, U64_MAX)
    IN
    /\ last.res # "Overflow"
    /\ (last.op = "insert" /\ last.res = "Ok" /\ r.end = U64_MAX) =>
        /\ Cardinality({e \in Entries(rangeset) :
                            contains_point(e, U64_MAX)}) = 1
        /\ \E e \in Entries(rangeset) : e.start <= r.start /\ e.end = U64_MAX
    /\ (last.op = "insert" /\ last.res = "Ok" /\ r.end = U64_MAX - 1
            /\ top \in Entries(old)) =>
        \E e \in Entries(rangeset) : e.start <= r.start /\ e.end = U64_MAX
    /\ (last.op = "insert" /\ last.res = "Ok" /\ r.end = U64_MAX - 2
            /\ top \in Entries(old)) =>
        /\ top \in Entries(rangeset)
        /\ \E e \in Entries(rangeset) : e.start <= r.start /\ e.end = r.end
    /\ (last.op = "insert" /\ r = top /\ top \in Entries(old)) =>
        /\ last.res = "Ok"
        /\ ranges(rangeset) = ranges(old)
    /\ (last.op = "remove" /\ r.end = U64_MAX /\ r.start > 0) =>
        /\ last.res = "Ok"
        /\ \A e \in Entries(old) :
            contains_point(e, r.start - 1)
                => Range(e.start, r.start - 1) \in Entries(rangeset)
        /\ \A e \in Entries(rangeset) : e.end < r.start

\* [2, u64::MAX - 1] has been inserted into a set holding [u64::MAX,
\* u64::MAX], and the set is [[2, u64::MAX]].
C26_Witness ==
    /\ last.op = "insert"
    /\ last.res = "Ok"
    /\ last.range = Range(2, U64_MAX - 1)
    /\ Range(U64_MAX, U64_MAX) \in Entries(last.old)
    /\ ranges(rangeset) = <<Range(2, U64_MAX)>>

\* ------------------------------------------------------------------------
\* The guard of GLOBALS.free_memory in the allocator calls
\* ------------------------------------------------------------------------

\* The last call went as far as GLOBALS.free_memory().lock().
TookTicket ==
    \/ done.fn \in {"init", "free_memory_size"}
    \/ done.fn = "alloc" /\ alloc_args(done.layout) = "Lock"
    \/ done.fn = "dealloc" /\ dealloc_args(done.ptr, done.layout) = "Lock"

\* C28: the lock is released on every exit path. When try_alloc,
\* try_dealloc, init or free_memory_size has returned, with Ok or with any
\* error, no ticket is outstanding; a call that reached lock() has advanced
\* next_ticket by one and now_serving by one, and a call that returned
\* before lock() has left both as they were.
C28_LockReleased ==
    done.fn # "none" =>
        /\ now_serving = next_ticket
        /\ done.out.locked <=> TookTicket
        /\ IF TookTicket
           THEN /\ next_ticket = fetch_add(done.tickets[1])
                /\ now_serving = fetch_add(done.tickets[2])
           ELSE <<next_ticket, now_serving>> = done.tickets

\* try_dealloc has returned IntegerOverflow through `?` with the guard in
\* scope, and both counters have wrapped to 0.
C28_Witness ==
    /\ done.fn = "dealloc"
    /\ done.out.res = "IntegerOverflow"
    /\ done.tickets = <<USIZE_MOD - 1, USIZE_MOD - 1>>
    /\ next_ticket = 0
    /\ now_serving = 0

\* Core c is between the return of GLOBALS.free_memory().lock() and the
\* drop of the guard.
InGuard(c) == pc[c] \in {"held", "remove", "unlock"}

\* Core c takes a step of its call in which it sets a local from the shared
\* Option<RangeSet> (the Uninitialized test, the search for a region,
\* size()) or from the result of insert or remove.
Reads(c) ==
    /\ call[c].fn # "none"
    /\ call'[c].fn = call[c].fn
    /\ call'[c] # call[c]

\* C29: every read and every write of the shared RangeSet by alloc,
\* dealloc, init and free_memory_size is made by a core that has the guard
\* of GLOBALS.free_memory before and after the step, and at most one core
\* has the guard.
C29_AccessUnderLock ==
    [][/\ Cardinality({c \in AllocCores : InGuard(c)}) <= 1
       /\ \A c \in AllocCores : Reads(c) => InGuard(c) /\ InGuard(c)'
       /\ free_memory' # free_memory =>
            \E c \in AllocCores :
                /\ InGuard(c) /\ InGuard(c)'
                /\ pc'[c] # pc[c]
                /\ \A d \in AllocCores \ {c} : pc'[d] = pc[d]]_vars

\* One core has just taken a block out of the set and still has the guard
\* while the other core waits in free_memory_size.
C29_Witness ==
    \E c, d \in AllocCores :
        /\ pc[c] = "unlock" /\ call[c].fn = "alloc" /\ call[c].res = "Ok"
        /\ pc[d] = "spin" /\ call[d].fn = "free_memory_size"
        /\ free_memory.some

\* ------------------------------------------------------------------------
\* RangeSet at capacity, removes that touch nothing, and the accessors
\* ------------------------------------------------------------------------

\* C31: insert returns FullRangeSet exactly when the set holds
\* RANGE_SET_SIZE entries and none of them starts where the range starts,
\* be the range next to or over entries or not, and then the set is left
\* as it was; at capacity an insert at the start of an entry succeeds, and
\* an entry with that start then reaches at least the larger of the two
\* ends.
C31_InsertCapacity ==
    last.op = "insert" =>
        LET old == last.old
            r == last.range
            same == {e \in Entries(old) : e.start = r.start}
        IN
        /\ last.res = "FullRangeSet"
            <=> (old.in_use = RANGE_SET_SIZE /\ same = {})
        /\ last.res = "FullRangeSet" => rangeset = old
        /\ (old.in_use = RANGE_SET_SIZE /\ same # {}) =>
            /\ last.res = "Ok"
            /\ rangeset.in_use <= RANGE_SET_SIZE
            /\ \E e \in Entries(rangeset) :
                /\ e.start = r.start
                /\ \A o \in same : e.end >= max(r.end, o.end)

\* An insert has failed on a full set although its range overlaps one entry
\* and is next to another.
C31_Witness ==
    /\ last.op = "insert"
    /\ last.res = "FullRangeSet"
    /\ \E e \in Entries(last.old) : overlaps(e, last.range)
    /\ \E e \in Entries(last.old) : e.end + 1 = last.range.start

\* The removed range lies strictly inside one entry of the set before the
\* call.
StrictlyInside ==
    \E e \in Entries(last.old) :
        e.start < last.range.start /\ last.range.end < e.end

\* C32: remove returns FullRangeSet exactly when the set holds
\* RANGE_SET_SIZE entries and the range lies strictly inside one of them,
\* and then the set is left as it was; with one entry less the same remove
\* succeeds and the set gets its last entry; a remove that splits nothing
\* succeeds whatever the number of entries.
C32_RemoveCapacity ==
    last.op = "remove" =>
        /\ last.res = "FullRangeSet"
            <=> (last.old.in_use = RANGE_SET_SIZE /\ StrictlyInside)
        /\ last.res = "FullRangeSet" => rangeset = last.old
        /\ (last.old.in_use = RANGE_SET_SIZE - 1 /\ StrictlyInside) =>
            /\ last.res = "Ok"
            /\ rangeset.in_use = RANGE_SET_SIZE
        /\ ~StrictlyInside => last.res = "Ok"

\* A remove has split an entry of a set with one free slot, and the set is
\* full.
C32_Witness ==
    /\ last.op = "remove"
    /\ last.res = "Ok"
    /\ StrictlyInside
    /\ last.old.in_use = RANGE_SET_SIZE - 1
    /\ rangeset.in_use = RANGE_SET_SIZE

\* Two ranges with no address in common: one ends before the other starts.
Apart(a, b) == a.end < b.start \/ b.end < a.start

\* C33: remove of a range that has no address in common with any entry
\* (the set is empty, or the range lies below, between or above the
\* entries) returns Ok and leaves ranges() and in_use as they were.
C33_RemoveDisjoint ==
    (last.op = "remove" /\ \A e \in Entries(last.old) : Apart(e, last.range)) =>
        /\ last.res = "Ok"
        /\ ranges(rangeset) = ranges(last.old)
        /\ rangeset.in_use = last.old.in_use

\* The removed range lay between two entries, right after the first.
C33_Witness ==
    /\ last.op = "remove"
    /\ \A e \in Entries(last.old) : Apart(e, last.range)
    /\ \E e \in Entries(last.old) : e.end + 1 = last.range.start
    /\ \E e \in Entries(last.old) : e.start > last.range.end
    /\ ranges(rangeset) = ranges(last.old)

\* ------------------------------------------------------------------------
\* Specification SpecAccess: a RangeSet under insert and remove, with
\* size(), start() and end() called in between
\* ------------------------------------------------------------------------

\* size() on rangeset.
Size ==
    /\ \E r \in RangeSet_size_u64(rangeset) :
        last' = Call("size", Range_default, rangeset, r)
    /\ UNCHANGED <<rangeset, mutexVars, allocVars, done, panicVars>>

\* start() on rangeset.
Start ==
    /\ last' = Call("start", Range_default, rangeset, RangeSet_start(rangeset))
    /\ UNCHANGED <<rangeset, mutexVars, allocVars, done, panicVars>>

\* end() on rangeset.
End ==
    /\ last' = Call("end", Range_default, rangeset, RangeSet_end(rangeset))
    /\ UNCHANGED <<rangeset, mutexVars, allocVars, done, panicVars>>

AccessNext ==
    \/ \E range \in InputRanges : Insert(range)
    \/ \E range \in InputRanges : Remove(range)
    \/ Size
    \/ Start
    \/ End

SpecAccess == Init /\ [][AccessNext]_vars

\* The number of addresses of a set of disjoint ranges.
RECURSIVE Addresses(_)
Addresses(rs) ==
    IF rs = {} THEN 0
    ELSE LET e == CHOOSE x \in rs : TRUE IN
         (e.end - e.start + 1) + Addresses(rs \ {e})

\* start() and end() agree with the entries: the lowest start and the
\* highest end, and None exactly for the empty set.
StartEndAgree ==
    /\ last.op = "start" =>
        /\ last.res.some <=> Entries(rangeset) # {}
        /\ last.res.some =>
            /\ \E e \in Entries(rangeset) : e.start = last.res.val
            /\ \A e \in Entries(rangeset) : e.start >= last.res.val
    /\ last.op = "end" =>
        /\ last.res.some <=> Entries(rangeset) # {}
        /\ last.res.some =>
            /\ \E e \in Entries(rangeset) : e.end = last.res.val
            /\ \A e \in Entries(rangeset) : e.end <= last.res.val

\* C34: in every reachable state the accessors agree with the contents:
\* size() returns the sum of the sizes of the entries (0 for a set with no
\* entry), start() the lowest start, end() the highest end, and start() and
\* end() are None exactly when the set is empty.
C34_Accessors ==
    /\ last.op = "size" =>
        /\ last.res.res = "Ok"
        /\ last.res.val = Addresses(Entries(rangeset))
    /\ StartEndAgree

\* ------------------------------------------------------------------------
\* Specification SpecPair: Range::overlaps and Range::contains_range on two
\* Range values built by Range::new
\* ------------------------------------------------------------------------

\* self.overlaps(range). `last` keeps both ranges next to the result.
RangeOverlaps(self, range) ==
    /\ last' = Call("overlaps", self, RangeSet_new,
                    [other |-> range, val |-> overlaps(self, range)])
    /\ UNCHANGED <<rangeset, mutexVars, allocVars, done, panicVars>>

\* self.contains_range(range).
RangeContainsRange(self, range) ==
    /\ last' = Call("contains_range", self, RangeSet_new,
                    [other |-> range, val |-> contains_range(self, range)])
    /\ UNCHANGED <<rangeset, mutexVars, allocVars, done, panicVars>>

PairNext ==
    \/ \E self, range \in InputRanges : RangeOverlaps(self, range)
    \/ \E self, range \in InputRanges : RangeContainsRange(self, range)

SpecPair == Init /\ [][PairNext]_vars

\* The addresses of a range among the end points in use. Two ranges share
\* an address exactly when they share one of their end points, and a range
\* leaves another exactly when one of its end points does, so these
\* addresses decide both questions.
AddressesOf(r) == {p \in Pts : r.start <= p /\ p <= r.end}

\* C35: Range::overlaps is symmetric and exact, and contains_range is exact:
\* a.overlaps(b) equals b.overlaps(a) and is true exactly when some address
\* lies in both ranges; a.contains_range(b) is true exactly when every
\* address of b lies in a.
C35_OverlapsContains ==
    /\ last.op = "overlaps" =>
        /\ last.res.val = overlaps(last.res.other, last.range)
        /\ last.res.val <=>
               AddressesOf(last.range) \cap AddressesOf(last.res.other) # {}
    /\ last.op = "contains_range" =>
        (last.res.val <=>
            AddressesOf(last.res.other) \subseteq AddressesOf(last.range))

\* A range strictly inside another was tested for overlap (no end point of
\* the outer range lies in the inner one), and a range that starts inside
\* another and ends outside it was tested for containment.
C35_Witness ==
    \/ /\ last.op = "overlaps"
       /\ last.res.val
       /\ last.range.start < last.res.other.start
       /\ last.res.other.end < last.range.end
    \/ /\ last.op = "contains_range"
       /\ ~last.res.val
       /\ last.range.start <= last.res.other.start
       /\ last.res.other.start <= last.range.end
       /\ last.range.end < last.res.other.end

\* ------------------------------------------------------------------------
\* The null address, counter wrap-around, full release and the core stacks
\* ------------------------------------------------------------------------

\* The shared value is Some and one of its entries holds address 0.
ZeroIsFree ==
    /\ free_memory.some
    /\ \E e \in Entries(free_memory.set) : contains_point(e, 0)

\* C36: a successful alloc of a nonzero size never returns the null address:
\* address 0 is in no reachable free set (init takes the kernel region
\* [0, KERNEL_BASE + KERNEL_MAX_SIZE - 1] out of it and dealloc refuses the
\* null pointer), so every pointer alloc returns passes dealloc's null check.
C36_NeverNull ==
    /\ ~ZeroIsFree
    /\ AllocatedBlock => done.out.val # 0
    /\ (done.fn = "dealloc" /\ done.ptr # 0) => done.out.res # "NullPtr"

\* The memory of the boot starts at address 0, and alloc returned the
\* lowest address that init left free: the first one above the kernel.
C36_Witness ==
    /\ AllocatedBlock
    /\ boot.memory[1][1] = 0
    /\ done.out.val = KernelEnd

\* The cores inside the spin loop of lock().
Spinning == {c \in Cores : pc[c] = "spin"}

\* C37: mutual exclusion and FIFO order survive the wrap-around of
\* next_ticket and now_serving modulo 2^w while fewer than 2^w cores hold or
\* wait for the lock: at most one guard exists, every grant goes to the
\* oldest waiter, the waiting cores hold pairwise different tickets of
\* which none is the one being served to a holder, and the distance from
\* now_serving to next_ticket modulo 2^w is the number of cores that hold
\* or wait.
C37_WrapAround ==
    /\ NCORES < USIZE_MOD
    /\ Cardinality(Holders) <= 1
    /\ grant.core = grant.first
    /\ \A c, d \in Spinning : c # d => my_ticket[c] # my_ticket[d]
    /\ Holders # {} => \A c \in Spinning : my_ticket[c] # now_serving
    /\ (next_ticket + USIZE_MOD - now_serving) % USIZE_MOD
           = Cardinality(Spinning \cup Holders)

\* next_ticket has wrapped and now_serving has not: a core was granted the
\* lock in ticket order and holds it while every other core waits, one of
\* them with ticket 0, issued after the wrap.
C37_Witness ==
    /\ next_ticket < now_serving
    /\ grant.core \in Holders
    /\ Spinning = Cores \ Holders
    /\ \E c \in Spinning : my_ticket[c] = 0

\* Every block that alloc returned has been given back: no core holds a
\* block and no alloc or dealloc call is on its way with one.
AllReleased == free_memory.some /\ Outstanding = {}

\* No dealloc of a block that alloc returned, with the layout it was
\* requested with, has failed.
DeallocsSucceed ==
    \A c \in AllocCores :
        call[c].fn = "dealloc" => call[c].res \in {"Run", "Ok"}

\* C38: full release restores the initial state. For every interleaving
\* across cores of successful allocs and of deallocs of the allocated
\* blocks with their layouts, in any order, every dealloc succeeds, and
\* once every block is back ranges() is what it was before the first
\* alloc: the set that init built.
C38_FullRelease ==
    /\ DeallocsSucceed
    /\ AllReleased =>
           ranges(free_memory.set) = ranges(build_free_mem(boot).set)

\* _expi_globals_init of entrypoint_mp, after globals::init returned Ok:
\* free_memory().lock().as_mut().expect(..).end().expect(..) + 1, the stack
\* top address, for the free set `mem` that init left.
expi_globals_init(mem) ==
    IF ~mem.some THEN [res |-> "uninitialized allocator", val |-> 0]
    ELSE LET end == RangeSet_end(mem.set) IN
         IF ~end.some THEN [res |-> "unknown stack top address", val |-> 0]
         ELSE IF u64_overflows(end.val + 1) THEN [res |-> "Overflow", val |-> 0]
         ELSE [res |-> "Ok", val |-> end.val + 1]

\* _expi_start_mp of entrypoint_mp: the stack pointer of the core with
\* MPIDR_EL1.Aff0 = core_id. x5 = (core_id + 1) * x2; sp = x1 - x5, in
\* 64-bit registers.
stack_pointer(stack_top, core_id) ==
    LET x5 == ((core_id + 1) * CORE_STACK_SIZE) % (U64_MAX + 1) IN
    (stack_top + (U64_MAX + 1) - x5) % (U64_MAX + 1)

\* The stack top address that core 0 stores at 0x1008: the free set is the
\* one that init built from the boot.
StackTop == expi_globals_init(Some(build_free_mem(boot).set)).val

\* The stack region of a core: the CORE_STACK_SIZE bytes right below its
\* initial stack pointer.
CoreStack(core_id) ==
    Range(stack_pointer(StackTop, core_id) - CORE_STACK_SIZE,
          stack_pointer(StackTop, core_id) - 1)

\* C39: under entrypoint_mp no block that alloc returned overlaps the stack
\* region of a core: the CORE_STACK_SIZE bytes right below the core's
\* initial stack pointer stack_top - (core_id + 1) * CORE_STACK_SIZE, where
\* stack_top is end() + 1 of the free set right after init.
C39_StacksNotAllocated ==
    \A x \in Returned, core_id \in 0..(MP_CORES - 1) :
        ~overlaps(BlockRange(x[3]), CoreStack(core_id))
====
